---- MODULE Spec2Model ----
(***************************************************************************)
(* Model of the execution-orchestration core of vibe-kanban:               *)
(*   crates/services/src/services/container.rs  (ContainerService)         *)
(*   crates/server/src/routes/projects.rs       (update_workflow_config)   *)
(*   crates/services/tests/conflict_resolution.rs                          *)
(* One task of one project, its workspace and session, and the execution   *)
(* processes started for it.                                               *)
(***************************************************************************)
EXTENDS Integers, Sequences, FiniteSets, TLC

VARIABLES
    task_status,          \* task.status of the task (db row)
    workflow_config,      \* project.workflow_config (the two gating flags)
    execution_processes,  \* execution_process rows, in creation order
    probe                 \* argument/result cell of the pure-function checks

vars == <<task_status, workflow_config, execution_processes, probe>>

\* ------------------------------------------------------------------ bounds
MaxProcs == 2
NumRepos == 1
MaxRepoStates == 3

\* ------------------------------------------------------------- enumerations
TaskStatus ==
    {"Todo", "InProgress", "Testing", "InReview", "HumanReview", "Done", "Cancelled"}

ExecutionProcessStatus == {"Running", "Completed", "Failed", "Killed"}

ExecutionProcessRunReason == {"SetupScript", "CodingAgent", "CleanupScript", "DevServer"}

ScriptContext == {"SetupScript", "CleanupScript", "DevServer"}

\* AIReviewResult: Pass, Fail { issues }, NeedsIntervention
MaxIssues == 2

Issues == {"lint", "tests"}

IssueLists == UNION {[1..n -> Issues] : n \in 0..MaxIssues}

Pass == [kind |-> "Pass", issues |-> <<>>]
Fail(issues) == [kind |-> "Fail", issues |-> issues]
NeedsIntervention == [kind |-> "NeedsIntervention", issues |-> <<>>]

AIReviewResult == {Pass, NeedsIntervention} \cup {Fail(issues) : issues \in IssueLists}

\* Option<T>: None is <<>>, Some(x) is <<x>>
None == <<>>
Some(x) == <<x>>

ProjectWorkflowConfig ==
    [enable_human_review : BOOLEAN, testing_requires_manual_exit : BOOLEAN]

\* WorkflowConfig::default()
default_enable_human_review == FALSE
default_testing_requires_manual_exit == TRUE
WorkflowConfigDefault ==
    [enable_human_review |-> default_enable_human_review,
     testing_requires_manual_exit |-> default_testing_requires_manual_exit]

\* ------------------------------------------------------- ExecutorAction chain
\* An ExecutorAction chain is the sequence of its nodes; next_action of the
\* head is the tail (None when the tail is empty).
ScriptRequest(context, repo) == [typ |-> "ScriptRequest", context |-> context, repo |-> repo]
CodingAgentInitialRequest == [typ |-> "CodingAgentInitialRequest", context |-> "None", repo |-> 0]
CodingAgentFollowUpRequest == [typ |-> "CodingAgentFollowUpRequest", context |-> "None", repo |-> 0]

next_action(action) == Tail(action)

\* ------------------------------------------------ validate_status_transition
Ok == "Ok"

validate_status_transition_NoConfigGate(from, to, config) ==
    IF from = to THEN Ok
    ELSE IF <<from, to>> \in
            {<<"Todo", "InProgress">>, <<"InProgress", "Testing">>,
             <<"Testing", "InReview">>, <<"Testing", "InProgress">>,
             <<"Testing", "Done">>, <<"Testing", "Cancelled">>,
             <<"InReview", "Done">>, <<"InReview", "Cancelled">>,
             <<"HumanReview", "Done">>, <<"HumanReview", "InProgress">>,
             <<"HumanReview", "Cancelled">>, <<"InProgress", "Done">>,
             <<"InProgress", "Cancelled">>, <<"Todo", "Cancelled">>,
             <<"InReview", "HumanReview">>, <<"InProgress", "InReview">>}
         THEN Ok
    ELSE "Invalid status transition"

validate_status_transition(from, to, config) ==
    LET enable_human_review ==
            IF config = None THEN FALSE ELSE config[1].enable_human_review
        testing_requires_manual_exit ==
            IF config = None THEN TRUE ELSE config[1].testing_requires_manual_exit
        is_testing_target == to = "Testing"
        is_human_review_target == to = "HumanReview"
        from_not_in_progress == from # "InProgress"
        from_not_in_review == from # "InReview"
    IN  IF from = to THEN Ok
        ELSE IF <<from, to>> \in
                {<<"Todo", "InProgress">>, <<"InProgress", "Testing">>,
                 <<"Testing", "InReview">>, <<"Testing", "InProgress">>,
                 <<"Testing", "Done">>, <<"Testing", "Cancelled">>,
                 <<"InReview", "Done">>, <<"InReview", "Cancelled">>,
                 <<"HumanReview", "Done">>, <<"HumanReview", "InProgress">>,
                 <<"HumanReview", "Cancelled">>, <<"InProgress", "Done">>,
                 <<"InProgress", "Cancelled">>, <<"Todo", "Cancelled">>}
             THEN Ok
        ELSE IF <<from, to>> = <<"InReview", "HumanReview">> THEN
             (IF enable_human_review THEN Ok
              ELSE "Human Review is not enabled for this project")
        ELSE IF <<from, to>> = <<"InProgress", "InReview">> THEN
             (IF testing_requires_manual_exit
              THEN "Testing phase requires manual exit"
              ELSE Ok)
        ELSE IF <<from, to>> = <<"InReview", "InProgress">>
             THEN "Use AI review result handler instead"
        ELSE IF is_testing_target /\ from_not_in_progress
             THEN "Only InProgress tasks can enter Testing"
        ELSE IF is_human_review_target /\ from_not_in_review
             THEN "Only InReview tasks can enter Human Review"
        ELSE IF from = "Todo" THEN "Tasks must start in InProgress"
        ELSE IF to = "Todo" THEN "Cannot transition to Todo status"
        ELSE IF from = "Done" THEN "Cannot transition from Done"
        ELSE IF from = "Cancelled" THEN "Cannot transition from Cancelled"
        ELSE "Invalid status transition"

\* ------------------------------------------------------------ should_finalize
\* ctx.execution_process is a row [run_reason, status, executor_action, exit_code]
should_finalize_FailedFirst(process) ==
    IF process.status \in {"Failed", "Killed"} THEN TRUE
    ELSE IF process.run_reason = "DevServer" THEN FALSE
    ELSE IF process.run_reason = "SetupScript"
            /\ next_action(process.executor_action) = None THEN FALSE
    ELSE next_action(process.executor_action) = None

should_finalize_IgnoresStatus(process) ==
    IF process.run_reason = "DevServer" THEN FALSE
    ELSE IF process.run_reason = "SetupScript"
            /\ next_action(process.executor_action) = None THEN FALSE
    ELSE next_action(process.executor_action) = None

should_finalize_NoSetupExemption(process) ==
    IF process.run_reason = "DevServer" THEN FALSE
    ELSE IF process.status \in {"Failed", "Killed"} THEN TRUE
    ELSE next_action(process.executor_action) = None

should_finalize(process) ==
    IF process.run_reason = "DevServer" THEN FALSE
    ELSE IF process.run_reason = "SetupScript"
            /\ next_action(process.executor_action) = None THEN FALSE
    ELSE IF process.status \in {"Failed", "Killed"} THEN TRUE
    ELSE next_action(process.executor_action) = None

\* ---------------------------------------------------- check_conflicts_resolved
\* had_conflicts_before[i] is the stored repo state, current_conflicts[i] is
\* (rebase in progress \/ conflicted files non-empty) for the same repo now.
RECURSIVE AnyTrue(_)
AnyTrue(bs) == IF bs = <<>> THEN FALSE ELSE Head(bs) \/ AnyTrue(Tail(bs))

check_conflicts_resolved(had_conflicts_before, current_conflicts) ==
    IF ~AnyTrue(had_conflicts_before) THEN FALSE
    ELSE ~AnyTrue(current_conflicts)


\* ------------------------------------------------------------- chain builders
\* A project repo: [setup_script, parallel_setup_script, cleanup_script : BOOLEAN],
\* identified by its position in the project's repo list.
ProjectRepo ==
    [setup_script : BOOLEAN, parallel_setup_script : BOOLEAN, cleanup_script : BOOLEAN]

ProjectRepoLists == UNION {[1..n -> ProjectRepo] : n \in 1..NumRepos}

\* indices of the repos that satisfy has(_), in list order
RECURSIVE FilterIdx(_, _, _)
FilterIdx(repos, i, field) ==
    IF i > Len(repos) THEN <<>>
    ELSE (IF repos[i][field] THEN <<i>> ELSE <<>>) \o FilterIdx(repos, i + 1, field)

\* cleanup_actions_for_repos: None when no repo has a cleanup script, else the
\* cleanup scripts chained in repo order (append_action appends at the end)
cleanup_actions_for_repos(repos) ==
    LET repos_with_cleanup == FilterIdx(repos, 1, "cleanup_script")
    IN  [k \in 1..Len(repos_with_cleanup) |->
            ScriptRequest("CleanupScript", repos_with_cleanup[k])]

\* setup_action_for_repo: a single SetupScript node with next_action None
setup_action_for_repo(i) == <<ScriptRequest("SetupScript", i)>>

\* build_sequential_setup_chain: fold over repos.iter().rev(), each repo that
\* has a setup script is put in front of what has been chained so far
\* (project_repos holds the repos, repos the positions handed to the function)
RECURSIVE build_sequential_setup_chain_from(_, _, _, _)
build_sequential_setup_chain_from(project_repos, repos, k, chained) ==
    IF k = 0 THEN chained
    ELSE build_sequential_setup_chain_from(project_repos, repos, k - 1,
            IF project_repos[repos[k]].setup_script
            THEN <<ScriptRequest("SetupScript", repos[k])>> \o chained
            ELSE chained)

RECURSIVE build_sequential_setup_chain_Forward(_, _, _)
build_sequential_setup_chain_Forward(project_repos, repos, terminal) ==
    IF repos = <<>> THEN terminal
    ELSE build_sequential_setup_chain_Forward(project_repos, Tail(repos),
            IF project_repos[Head(repos)].setup_script
            THEN <<ScriptRequest("SetupScript", Head(repos))>> \o terminal
            ELSE terminal)

build_sequential_setup_chain(project_repos, repos, terminal) ==
    build_sequential_setup_chain_from(project_repos, repos, Len(repos), terminal)

\* the coding action of start_workspace: the initial request, its next_action
\* the cleanup action
coding_action(project_repos) ==
    <<CodingAgentInitialRequest>> \o cleanup_actions_for_repos(project_repos)

\* ------------------------------------------------------ operation working state
\* Every operation is a function on a working state
\*   [task, procs, writes, notified, ret, logs, reviews, subtasks, trace]
\* task/procs are the db rows, writes the Task::update_status calls made so
\* far by the operation (from, to, config at the write), notified whether
\* NotificationService::notify was called, ret the operation's result, logs
\* the lines appended to execution_process_logs (process, line), reviews the
\* number of trigger_ai_self_review calls, subtasks the tasks created, trace
\* the Task::create and Task::update_status calls in the order they were made,
\* publisher the SharePublisher of the call ("none" when there is none, "ok"
\* or "err" for what its update answers), shares the share updates made, each
\* with the number of status writes made before it.
SharePublisher == {"none", "ok", "err"}

StartState ==
    [task |-> task_status, procs |-> execution_processes,
     writes |-> <<>>, notified |-> FALSE, ret |-> "Ok",
     logs |-> <<>>, reviews |-> 0, subtasks |-> <<>>, trace |-> <<>>,
     publisher |-> "ok", shares |-> <<>>]

\* the operation is run with the given share publisher
WithPublisher(s, publisher) == [s EXCEPT !.publisher = publisher]

\* if let Some(publisher) = share_publisher && let Err(err) =
\* publisher.update_shared_task_by_id(task.id): an error is only logged
update_shared_task_by_id(s) ==
    IF s.publisher = "none" THEN s
    ELSE [s EXCEPT !.shares = Append(@, [after_write |-> Len(s.writes),
                                         result |-> s.publisher])]

\* Task::update_status(pool, task.id, to)
update_status(s, to) ==
    [s EXCEPT !.task = to,
              !.writes = Append(@, [from |-> s.task, to |-> to,
                                    config |-> workflow_config]),
              !.trace = Append(@, "Task::update_status")]

\* ExecutionProcessLogs::append_log_line(pool, id, line)
append_log_line(s, p, line) ==
    [s EXCEPT !.logs = Append(@, [process |-> p, line |-> line])]

\* ExecutionProcess::update_completion(pool, id, status, exit_code)
update_completion(s, p, status, exit_code) ==
    [s EXCEPT !.procs[p].status = status, !.procs[p].exit_code = exit_code]

\* ------------------------------------------- repo states captured at start
\* Result<T, E> of a GitService call: [ok, value] (value is a filler on Err)
ResultOk(v) == [ok |-> TRUE, value |-> v]
ResultErr(v) == [ok |-> FALSE, value |-> v]

\* one turn of the loop over the workspace's repositories; git is
\* [head_info, is_rebase_in_progress, get_conflicted_files], the results of
\* the three GitService calls for the repo
capture_repo_state_ConflictsOnError(git) ==
    [before_head_commit |-> IF git.head_info.ok THEN Some(git.head_info.value) ELSE None,
     after_head_commit |-> None,
     had_conflicts_before |->
        \/ (IF git.is_rebase_in_progress.ok THEN git.is_rebase_in_progress.value ELSE TRUE)
        \/ (IF git.get_conflicted_files.ok THEN git.get_conflicted_files.value ELSE <<>>) # <<>>]

capture_repo_state(git) ==
    [before_head_commit |-> IF git.head_info.ok THEN Some(git.head_info.value) ELSE None,
     after_head_commit |-> None,
     had_conflicts_before |->
        \/ (IF git.is_rebase_in_progress.ok THEN git.is_rebase_in_progress.value ELSE FALSE)
        \/ (IF git.get_conflicted_files.ok THEN git.get_conflicted_files.value ELSE <<>>) # <<>>]

\* repo_states: one captured state per repository, in order; no turn of the
\* loop returns an error
capture_repo_states(gits) == [i \in 1..Len(gits) |-> capture_repo_state(gits[i])]

\* ------------------------------------------------------------- start_execution
\* outcome is what the environment does to this call:
\*   "ok"                   start_execution_inner succeeds
\*   "no_repositories"      WorkspaceRepo::find_repos_for_workspace is empty
\*   "no_container_ref"     workspace.container_ref is None
\*   "executable_not_found" start_execution_inner fails with ExecutableNotFound
\*   "spawn_error"          start_execution_inner fails otherwise
StartOutcome ==
    {"ok", "no_repositories", "no_container_ref", "executable_not_found", "spawn_error"}

\* the error start_execution returns for an outcome
start_error(outcome) ==
    IF outcome = "no_repositories" THEN "Workspace has no repositories configured"
    ELSE IF outcome = "no_container_ref" THEN "Container ref not found"
    ELSE IF outcome = "executable_not_found" THEN "ExecutableNotFound"
    ELSE "SpawnError"

\* LogMsg lines: [typ, content, index]; index is the conversation index of a
\* JsonPatch that adds a normalized entry (0 for other lines)
StderrLine(err) ==
    [typ |-> "Stderr", content |-> <<"Failed to start execution: ", err>>, index |-> 0]

SetupRequiredPatch ==
    [typ |-> "JsonPatch", content |-> <<"ErrorMessage", "SetupRequired">>, index |-> 2]

\* the log lines of the start-failure path
start_failure_logs_AlwaysSetupRequired(s, p, err) ==
    append_log_line(append_log_line(s, p, StderrLine(err)), p, SetupRequiredPatch)

start_failure_logs(s, p, err) ==
    LET s1 == append_log_line(s, p, StderrLine(err))
    IN  IF err = "ExecutableNotFound"
        THEN append_log_line(s1, p, SetupRequiredPatch)
        ELSE s1

start_execution(s, executor_action, run_reason, outcome) ==
    LET s1 == IF s.task # "InProgress" /\ run_reason # "DevServer"
              THEN update_shared_task_by_id(update_status(s, "InProgress")) ELSE s
        created == [run_reason |-> run_reason, status |-> "Running",
                    executor_action |-> executor_action, exit_code |-> None]
        s2 == [s1 EXCEPT !.procs = Append(@, created)]
        p  == Len(s2.procs)
    IN  IF outcome \in {"no_repositories", "no_container_ref"}
        THEN [s1 EXCEPT !.ret = start_error(outcome)]
        ELSE IF outcome \in {"executable_not_found", "spawn_error"}
        THEN [start_failure_logs(
                 update_status(update_completion(s2, p, "Failed", None), "InReview"),
                 p, start_error(outcome))
                EXCEPT !.ret = start_error(outcome)]
        ELSE [s2 EXCEPT !.ret = "Ok"]

\* ------------------------------------------------------- try_start_next_action
next_run_reason_ByNextOnly(action_typ, next_typ) ==
    IF next_typ = "ScriptRequest" THEN "SetupScript" ELSE "CodingAgent"

next_run_reason(action_typ, next_typ) ==
    IF action_typ = "ScriptRequest" /\ next_typ = "ScriptRequest" THEN "SetupScript"
    ELSE IF action_typ \in {"CodingAgentInitialRequest", "CodingAgentFollowUpRequest"}
            /\ next_typ = "ScriptRequest" THEN "CleanupScript"
    ELSE "CodingAgent"

try_start_next_action_SameAction(s, process, outcome) ==
    LET action == process.executor_action
        next   == next_action(action)
    IN  IF next = None THEN [s EXCEPT !.ret = "Ok"]
        ELSE start_execution(s, action, next_run_reason(action[1].typ, next[1].typ), outcome)

try_start_next_action(s, process, outcome) ==
    LET action == process.executor_action
        next   == next_action(action)
    IN  IF next = None THEN [s EXCEPT !.ret = "Ok"]
        ELSE start_execution(s, next, next_run_reason(action[1].typ, next[1].typ), outcome)

\* ---------------------------------------------------------------- finalize_task
\* the status finalize_task writes for a process that was not Killed
final_status_ByConflicts(status, conflicts_resolved) ==
    IF status = "Completed"
    THEN (IF conflicts_resolved THEN "Done" ELSE "InReview")
    ELSE "InReview"

final_status(status, conflicts_resolved) ==
    IF status = "Completed"
    THEN (IF conflicts_resolved THEN "Testing" ELSE "Testing")
    ELSE "Testing"

finalize_task(s, process, conflicts_resolved) ==
    IF process.status = "Killed" THEN s
    ELSE LET s1 == update_shared_task_by_id(
                       update_status(s, final_status(process.status, conflicts_resolved)))
         IN  IF process.status \in {"Completed", "Failed"}
             THEN [s1 EXCEPT !.notified = TRUE]
             ELSE s1

\* determine_final_status of tests/conflict_resolution.rs, which "simulates the
\* finalize_task status determination logic"
determine_final_status(execution_status, conflicts_resolved) ==
    IF execution_status = "Completed"
    THEN (IF conflicts_resolved THEN "Done" ELSE "InReview")
    ELSE IF execution_status = "Failed" THEN "InReview"
    ELSE IF execution_status = "Killed" THEN "InReview"
    ELSE "InProgress"

\* ---------------------------------------------------- cleanup_orphan_executions
\* the run reasons whose orphans put the parent task in review
orphan_needs_review_Always(run_reason) == TRUE

orphan_needs_review(run_reason) ==
    run_reason \in {"CodingAgent", "SetupScript", "CleanupScript"}

RECURSIVE cleanup_orphan_from(_, _)
cleanup_orphan_from(s, p) ==
    IF p > Len(s.procs) THEN s
    ELSE IF s.procs[p].status # "Running" THEN cleanup_orphan_from(s, p + 1)
    ELSE LET s1 == update_completion(s, p, "Failed", None)
             s2 == IF orphan_needs_review(s.procs[p].run_reason)
                   THEN update_shared_task_by_id(update_status(s1, "InReview")) ELSE s1
         IN  cleanup_orphan_from(s2, p + 1)

cleanup_orphan_executions(s) == [cleanup_orphan_from(s, 1) EXCEPT !.ret = "Ok"]

\* ------------------------------------------------------------ startup recovery
\* The repo-state rows of one repository of one workspace, one per process in
\* the order the processes were created: [status, before_head_commit,
\* after_head_commit]; status is that of the process.

\* cleanup_orphan_executions on the repo state of a process: an orphan is
\* failed and its after_head_commit is set when the HEAD can be read
cleanup_orphan_repo_state(row, head_info) ==
    IF row.status # "Running" THEN row
    ELSE [row EXCEPT !.status = "Failed",
                     !.after_head_commit = IF head_info.ok THEN Some(head_info.value) ELSE @]

cleanup_orphan_repo_states(rows, head_info) ==
    [i \in 1..Len(rows) |-> cleanup_orphan_repo_state(rows[i], head_info)]

\* ExecutionProcess::list_missing_before_context: the rows with
\* after_head_commit and without before_head_commit, each with the
\* after_head_commit of the previous process
list_missing_before_context(rows) ==
    {i \in 1..Len(rows) :
        rows[i].after_head_commit # None /\ rows[i].before_head_commit = None}

prev_after_head_commit(rows, i) ==
    IF i = 1 THEN None ELSE rows[i - 1].after_head_commit

\* the value backfill_before_head_commits finds for a row: the previous
\* after-commit, else the base branch OID when get_branch_oid answers
backfill_before_BaseFirst(prev_after, branch_oid) ==
    IF branch_oid.ok THEN Some(branch_oid.value) ELSE prev_after

backfill_before(prev_after, branch_oid) ==
    IF prev_after # None THEN prev_after
    ELSE IF branch_oid.ok THEN Some(branch_oid.value) ELSE None

\* update_before_head_commit is called only when a value was found
backfill_before_head_commits(rows, branch_oid) ==
    [i \in 1..Len(rows) |->
        IF i \in list_missing_before_context(rows)
        THEN LET before == backfill_before(prev_after_head_commit(rows, i), branch_oid)
             IN  IF before # None THEN [rows[i] EXCEPT !.before_head_commit = before]
                 ELSE rows[i]
        ELSE rows[i]]

\* -------------------------------------------------------------- result handlers
\* trigger_ai_self_review: the review is requested (its body only logs)
trigger_ai_self_review(s) ==
    [s EXCEPT !.reviews = @ + 1, !.trace = Append(@, "trigger_ai_self_review")]

complete_testing(s) ==
    IF validate_status_transition(s.task, "InReview", Some(workflow_config)) # Ok
    THEN [s EXCEPT !.ret = "InvalidStatusTransition"]
    ELSE [update_shared_task_by_id(trigger_ai_self_review(update_status(s, "InReview")))
            EXCEPT !.ret = "InReview"]

\* the status handle_ai_review_result(Pass) writes
pass_status_AlwaysHumanReview(config) == "HumanReview"

pass_status_AlwaysDone(config) == "Done"

pass_status(config) ==
    IF config.enable_human_review THEN "HumanReview" ELSE "Done"

\* the project of the task under review
project_id == "project"

\* CreateTask of create_review_feedback_subtasks; format!("Fix: {}", issue) is
\* the pair of the prefix and the issue
CreateTask(issue) ==
    [project_id |-> project_id, title |-> <<"Fix: ", issue>>,
     description |-> <<"AI Review issue: ", issue>>, status |-> "Todo"]

\* Task::create of one row
create_task(s, create) ==
    [s EXCEPT !.subtasks = Append(@, create), !.trace = Append(@, "Task::create")]

RECURSIVE create_review_feedback_subtasks_from(_, _, _)
create_review_feedback_subtasks_from(s, issues, k) ==
    IF k > Len(issues) THEN s
    ELSE create_review_feedback_subtasks_from(
            create_task(s, CreateTask(issues[k])), issues, k + 1)

create_review_feedback_subtasks_SkipFirst(s, issues) ==
    create_review_feedback_subtasks_from(s, issues, 2)

create_review_feedback_subtasks(s, issues) ==
    create_review_feedback_subtasks_from(s, issues, 1)

\* the NeedsIntervention arm: the task stays where it is
needs_intervention_WritesInReview(s) ==
    [update_shared_task_by_id(update_status(s, "InReview")) EXCEPT !.ret = "InReview"]

needs_intervention(s) == [s EXCEPT !.ret = "InReview"]

handle_ai_review_result(s, result) ==
    IF result.kind = "Pass"
    THEN [update_shared_task_by_id(update_status(s, pass_status(workflow_config)))
            EXCEPT !.ret = "Done"]
    ELSE IF result.kind = "Fail"
    THEN [update_shared_task_by_id(
              update_status(create_review_feedback_subtasks(s, result.issues), "InProgress"))
            EXCEPT !.ret = "InProgress"]
    ELSE needs_intervention(s)

approve_human_review(s) ==
    IF validate_status_transition(s.task, "Done", Some(workflow_config)) # Ok
    THEN [s EXCEPT !.ret = "InvalidStatusTransition"]
    ELSE [update_shared_task_by_id(update_status(s, "Done")) EXCEPT !.ret = "Done"]

reject_human_review(s) ==
    IF validate_status_transition(s.task, "InProgress", Some(workflow_config)) # Ok
    THEN [s EXCEPT !.ret = "InvalidStatusTransition"]
    ELSE [update_shared_task_by_id(update_status(s, "InProgress")) EXCEPT !.ret = "InProgress"]


\* ------------------------------------------------------------- start_workspace
\* setup_outcome[k] is the outcome of starting the k-th parallel setup script,
\* outcome that of the call whose result start_workspace returns
RECURSIVE start_parallel_setups(_, _, _, _)
start_parallel_setups(s, repos_with_setup, k, setup_outcome) ==
    IF k > Len(repos_with_setup) THEN s
    ELSE start_parallel_setups(
            start_execution(s, setup_action_for_repo(repos_with_setup[k]),
                            "SetupScript", setup_outcome[k]),
            repos_with_setup, k + 1, setup_outcome)

start_workspace_AlwaysChain(s, project_repos, setup_outcome, outcome) ==
    LET repos_with_setup == FilterIdx(project_repos, 1, "setup_script")
    IN  start_execution(s,
            build_sequential_setup_chain(project_repos, repos_with_setup,
                                         coding_action(project_repos)),
            "SetupScript", outcome)

start_workspace(s, project_repos, setup_outcome, outcome) ==
    LET repos_with_setup == FilterIdx(project_repos, 1, "setup_script")
        all_parallel == \A k \in 1..Len(repos_with_setup) :
                            project_repos[repos_with_setup[k]].parallel_setup_script
    IN  IF all_parallel
        THEN start_execution(
                start_parallel_setups(s, repos_with_setup, 1, setup_outcome),
                coding_action(project_repos), "CodingAgent", outcome)
        ELSE start_execution(s,
                build_sequential_setup_chain(project_repos, repos_with_setup,
                                             coding_action(project_repos)),
                "SetupScript", outcome)

\* ------------------------------------------------------------------ log streams
\* A LogMsg is [kind, id]; id tells the items of a store apart.
LogMsgKind == {"Stdout", "Stderr", "JsonPatch", "SessionId", "Finished"}

Finished == [kind |-> "Finished", id |-> 0]

\* stream.filter(|msg| matches!(msg, kinds))
FilterKinds(msgs, kinds) ==
    LET Matches(msg) == msg.kind \in kinds
    IN  SelectSeq(msgs, Matches)

\* MsgStore::history_plus_stream: the items of the store, oldest first
history_plus_stream(store) == store

\* ExecutionProcessLogs::parse_logs of the persisted records
parse_logs(log_records) == log_records

\* the items Executor::normalize_logs pushes into the store it is attached to
normalize_logs(store, patches) ==
    store \o [k \in 1..patches |-> [kind |-> "JsonPatch", id |-> Len(store) + k]]

\* stream_raw_logs: msg_store is the in-memory store of the id (None when
\* there is none), log_records the persisted log of the id
stream_raw_logs_Unfiltered(msg_store, log_records) ==
    IF msg_store # None
    THEN Some(FilterKinds(history_plus_stream(msg_store[1]),
                          {"Stdout", "Stderr", "Finished"}))
    ELSE IF log_records = <<>> THEN None
    ELSE Some(parse_logs(log_records) \o <<Finished>>)

stream_raw_logs(msg_store, log_records) ==
    IF msg_store # None
    THEN Some(FilterKinds(history_plus_stream(msg_store[1]),
                          {"Stdout", "Stderr", "Finished"}))
    ELSE IF log_records = <<>> THEN None
    ELSE Some(FilterKinds(parse_logs(log_records), {"Stdout", "Stderr"}) \o <<Finished>>)

\* the temporary store stream_normalized_logs rebuilds from the persisted log
temp_store(log_records, patches) ==
    normalize_logs(
        FilterKinds(parse_logs(log_records), {"Stdout", "Stderr", "JsonPatch"})
            \o <<Finished>>,
        patches)

\* stream_normalized_logs: coding tells whether the action of the process is a
\* coding agent request, patches how many entries the normaliser produces
stream_normalized_logs(msg_store, log_records, coding, patches) ==
    IF msg_store # None
    THEN Some(FilterKinds(history_plus_stream(msg_store[1]), {"JsonPatch"})
              \o <<Finished>>)
    ELSE IF log_records = <<>> THEN None
    ELSE IF ~coding THEN None
    ELSE Some(FilterKinds(history_plus_stream(temp_store(log_records, patches)),
                          {"JsonPatch"}) \o <<Finished>>)

\* ------------------------------------------------- spawn_stream_raw_logs_to_db
\* The persistence pump of one execution: pump is [log_lines, agent_session_ids,
\* stopped], the lines appended to the log table, the session ids written to
\* the coding-agent turn, and whether the loop has been left.
\* format!("{jsonl_line}\n") of serde_json::to_string(&msg)
jsonl_line_with_newline(msg) == [json |-> msg, newline |-> TRUE]

\* one turn of the while loop on the item the stream delivers
pump_item_PersistsPatches(pump, msg) ==
    IF msg.kind \in {"Stdout", "Stderr", "JsonPatch"}
    THEN [pump EXCEPT !.log_lines = Append(@, jsonl_line_with_newline(msg))]
    ELSE IF msg.kind = "SessionId"
    THEN [pump EXCEPT !.agent_session_ids = Append(@, msg)]
    ELSE [pump EXCEPT !.stopped = TRUE]

pump_item(pump, msg) ==
    IF msg.kind \in {"Stdout", "Stderr"}
    THEN [pump EXCEPT !.log_lines = Append(@, jsonl_line_with_newline(msg))]
    ELSE IF msg.kind = "SessionId"
    THEN [pump EXCEPT !.agent_session_ids = Append(@, msg)]
    ELSE IF msg.kind = "Finished"
    THEN [pump EXCEPT !.stopped = TRUE]
    ELSE pump

\* ------------------------------------------------------------------ CustomAgent
\* A custom agent is [base_agent, option, append_prompt]: base_agent "None"
\* when none is given; option is the one optional switch of the base agent's
\* settings (dangerously_skip_permissions, yolo, force, auto_approve,
\* allow_all_tools), None when unset; the agent has no command overrides, no
\* model, sandbox or autonomy setting.
BaseAgentType ==
    {"ClaudeCode", "Amp", "Gemini", "Codex", "Opencode", "CursorAgent", "QwenCode",
     "Copilot", "Droid"}

unwrap_or(option, default) == IF option = None THEN default ELSE option[1]

ClaudePrelude ==
    <<"-p", "--verbose", "--output-format=stream-json", "--input-format=stream-json",
      "--include-partial-messages", "--disallowedTools=AskUserQuestion">>

\* build_command_builder: the params added to the base command
build_command_builder(agent) ==
    IF agent.base_agent \in {"ClaudeCode", "None"}
    THEN ClaudePrelude \o
         (IF (IF agent.base_agent = "ClaudeCode" THEN unwrap_or(agent.option, FALSE) ELSE TRUE)
          THEN <<"--dangerously-skip-permissions">> ELSE <<>>)
    ELSE IF agent.base_agent = "Amp" THEN <<"--output-format=stream-json", "--verbose">>
    ELSE IF agent.base_agent \in {"Gemini", "QwenCode"}
    THEN (IF unwrap_or(agent.option, FALSE) THEN <<"--yolo">> ELSE <<>>)
    ELSE IF agent.base_agent = "Codex" THEN <<>>
    ELSE IF agent.base_agent = "Droid" THEN <<"--output-format", "stream-json">>
    ELSE IF agent.base_agent = "CursorAgent"
    THEN (IF unwrap_or(agent.option, FALSE) THEN <<"--force">> ELSE <<>>)
    ELSE IF agent.base_agent = "Opencode"
    THEN (IF unwrap_or(agent.option, FALSE) THEN <<"--auto-approve">> ELSE <<>>)
    ELSE (IF unwrap_or(agent.option, FALSE) THEN <<"--allow-all-tools">> ELSE <<>>)

\* build_initial / build_follow_up(["--resume", session_id])
build_args(agent, follow_up) ==
    build_command_builder(agent) \o (IF follow_up THEN <<"--resume", "session_id">> ELSE <<>>)

\* AppendPrompt::combine_prompt
combine_prompt(append_prompt, prompt) == <<prompt>> \o append_prompt

\* spawn (follow_up = FALSE) and spawn_follow_up (follow_up = TRUE): the
\* spawned child [args, peer, interrupt_sender, stdin, stdin_closed]; peer
\* tells whether the control-protocol task has been spawned with the prompt
spawn(agent, follow_up, prompt) ==
    IF agent.base_agent = "ClaudeCode"
    THEN [args |-> build_args(agent, follow_up),
          peer |-> Some(combine_prompt(agent.append_prompt, prompt)),
          interrupt_sender |-> Some("interrupt_tx"),
          stdin |-> <<>>, stdin_closed |-> FALSE]
    ELSE [args |-> build_args(agent, follow_up),
          peer |-> None,
          interrupt_sender |-> None,
          stdin |-> combine_prompt(agent.append_prompt, prompt), stdin_closed |-> TRUE]

\* The control-protocol task: task is [pc, calls, raw_logs], calls the
\* requests made on the peer in order, raw_logs the lines given to
\* log_writer.log_raw. One step is the next request and its result ok.
protocol_step_IgnoreInitializeError(task, ok) ==
    IF task.pc = "initialize"
    THEN [pc |-> "set_permission_mode",
          calls |-> Append(task.calls, [call |-> "initialize", ok |-> ok]),
          raw_logs |-> task.raw_logs]
    ELSE IF task.pc = "set_permission_mode"
    THEN [pc |-> "send_user_message",
          calls |-> Append(task.calls, [call |-> "set_permission_mode", ok |-> ok]),
          raw_logs |-> task.raw_logs]
    ELSE [pc |-> "done",
          calls |-> Append(task.calls, [call |-> "send_user_message", ok |-> ok]),
          raw_logs |-> IF ok THEN task.raw_logs
                       ELSE Append(task.raw_logs, "Error: Failed to send prompt")]

protocol_step(task, ok) ==
    IF task.pc = "initialize"
    THEN [pc |-> IF ok THEN "set_permission_mode" ELSE "done",
          calls |-> Append(task.calls, [call |-> "initialize", ok |-> ok]),
          raw_logs |-> IF ok THEN task.raw_logs
                       ELSE Append(task.raw_logs, "Error: Failed to initialize")]
    ELSE IF task.pc = "set_permission_mode"
    THEN [pc |-> "send_user_message",
          calls |-> Append(task.calls, [call |-> "set_permission_mode", ok |-> ok]),
          raw_logs |-> task.raw_logs]
    ELSE [pc |-> "done",
          calls |-> Append(task.calls, [call |-> "send_user_message", ok |-> ok]),
          raw_logs |-> IF ok THEN task.raw_logs
                       ELSE Append(task.raw_logs, "Error: Failed to send prompt")]

\* --------------------------------------------------------------------- try_stop
\* The process table of all workspaces: rows [session, run_reason, status]; a
\* stop state st is [processes, requested]: the table and the rows for which
\* stop_execution(process, Killed) has been called, in call order.
\* session_workspace[k] is the workspace of session k.
session_workspace == <<1, 1, 2>>

\* Session::find_by_workspace_id
RECURSIVE sessions_from(_, _)
sessions_from(workspace, k) ==
    IF k > Len(session_workspace) THEN <<>>
    ELSE (IF session_workspace[k] = workspace THEN <<k>> ELSE <<>>)
         \o sessions_from(workspace, k + 1)

find_by_workspace_id(workspace) == sessions_from(workspace, 1)

\* stop_execution(process, status): the row gets the status when the stop
\* succeeds (stop_ok), and is left as it is when it returns an error
stop_execution(st, i, status, stop_ok) ==
    [processes |-> IF stop_ok THEN [st.processes EXCEPT ![i].status = status]
                   ELSE st.processes,
     requested |-> Append(st.requested, i)]

\* the loop over the processes of one session, from row i on
RECURSIVE try_stop_session_IncludingDevServers(_, _, _, _, _)
try_stop_session_IncludingDevServers(st, session, i, include_dev_server, stop_ok) ==
    IF i > Len(st.processes) THEN st
    ELSE try_stop_session_IncludingDevServers(
            IF st.processes[i].session # session THEN st
            ELSE IF st.processes[i].status = "Running"
            THEN stop_execution(st, i, "Killed", stop_ok[i])
            ELSE st,
            session, i + 1, include_dev_server, stop_ok)

RECURSIVE try_stop_session(_, _, _, _, _)
try_stop_session(st, session, i, include_dev_server, stop_ok) ==
    IF i > Len(st.processes) THEN st
    ELSE try_stop_session(
            IF st.processes[i].session # session THEN st
            ELSE IF ~include_dev_server /\ st.processes[i].run_reason = "DevServer" THEN st
            ELSE IF st.processes[i].status = "Running"
            THEN stop_execution(st, i, "Killed", stop_ok[i])
            ELSE st,
            session, i + 1, include_dev_server, stop_ok)

\* the loop over the sessions of the workspace
RECURSIVE try_stop_sessions(_, _, _, _)
try_stop_sessions(st, sessions, include_dev_server, stop_ok) ==
    IF sessions = <<>> THEN st
    ELSE try_stop_sessions(
            try_stop_session(st, Head(sessions), 1, include_dev_server, stop_ok),
            Tail(sessions), include_dev_server, stop_ok)

try_stop(processes, workspace, include_dev_server, stop_ok) ==
    try_stop_sessions([processes |-> processes, requested |-> <<>>],
                      find_by_workspace_id(workspace), include_dev_server, stop_ok)

\* ------------------------------------------------------------ exit of a process
\* The exit monitor: the row gets its final status, then the context is either
\* finalized or the next action of the chain is started.
ExitCode(status) ==
    IF status = "Completed" THEN Some(0) ELSE IF status = "Failed" THEN Some(1) ELSE None

on_process_exit(s, p, status, conflicts_resolved, outcome) ==
    LET s1 == update_completion(s, p, status, ExitCode(status))
        process == s1.procs[p]
    IN  IF should_finalize(process)
        THEN finalize_task(s1, process, conflicts_resolved)
        ELSE try_start_next_action(s1, process, outcome)

\* ------------------------------------------------------------------------ runs
\* A run is one execution of an operation from the current state: the
\* operation, its final working state (rows, update_status calls, notification,
\* result) and, for the exit of a process, the exited row, what should_finalize
\* answered and what check_conflicts_resolved answered.
NoProcess ==
    [run_reason |-> "None", status |-> "None", executor_action |-> <<>>, exit_code |-> None]

Run(op, s, process, finalize, resolved) ==
    [op |-> op, s |-> s, process |-> process, finalize |-> finalize, resolved |-> resolved]

\* number of setup scripts start_workspace starts on their own
ParallelSetups(project_repos) ==
    LET repos_with_setup == FilterIdx(project_repos, 1, "setup_script")
    IN  IF \A k \in 1..Len(repos_with_setup) :
               project_repos[repos_with_setup[k]].parallel_setup_script
        THEN Len(repos_with_setup) ELSE 0

\* parallel_setup_script is only read on repos that have a setup script
ProjectRepoInputs ==
    {r \in ProjectRepoLists :
        \A i \in 1..Len(r) : r[i].parallel_setup_script => r[i].setup_script}

\* outcomes of start_execution_inner
InnerOutcome == {"ok", "executable_not_found", "spawn_error"}

\* start_workspace has created the container and reloaded the workspace, so
\* container_ref is set; a workspace without repositories has none for every
\* call; otherwise each parallel setup and the returned call start or fail
WorkspaceOutcomes(n) ==
    {<<setup_outcome, outcome>> :
        setup_outcome \in [1..n -> {"ok", "spawn_error"}], outcome \in InnerOutcome}
    \cup {<<[k \in 1..n |-> "no_repositories"], "no_repositories">>}

\* start_workspace creates the container and the session of the workspace: it
\* is the first operation on it
StartWorkspaceRuns ==
    IF execution_processes # <<>> THEN {}
    ELSE UNION {
        {Run("start_workspace",
             start_workspace(StartState, project_repos, o[1], o[2]),
             NoProcess, FALSE, FALSE) :
            o \in WorkspaceOutcomes(ParallelSetups(project_repos))} :
        project_repos \in ProjectRepoInputs}

\* start_execution called directly: a follow-up request or a dev-server script
DirectStarts ==
    {<<(<<CodingAgentFollowUpRequest>>), "CodingAgent">>,
     <<(<<ScriptRequest("DevServer", 1)>>), "DevServer">>}

StartExecutionRuns ==
    {Run("start_execution", start_execution(StartState, d[1], d[2], outcome),
         NoProcess, FALSE, FALSE) :
        d \in DirectStarts, outcome \in StartOutcome}

Exited(p, status) ==
    [execution_processes[p] EXCEPT !.status = status, !.exit_code = ExitCode(status)]

\* conflicts_resolved is only read when a Completed process is finalized and
\* outcome only when a next action is started
ProcessExitRuns ==
    {Run("process_exit",
         on_process_exit(StartState, a[1], a[2], a[3], a[4]),
         Exited(a[1], a[2]), should_finalize(Exited(a[1], a[2])), a[3]) :
        a \in {b \in (1..Len(execution_processes)) \X {"Completed", "Failed", "Killed"}
                        \X BOOLEAN \X StartOutcome :
                 /\ execution_processes[b[1]].status = "Running"
                 /\ (b[3] => should_finalize(Exited(b[1], b[2])) /\ b[2] = "Completed")
                 /\ (b[4] # "ok" => /\ ~should_finalize(Exited(b[1], b[2]))
                                    /\ next_action(execution_processes[b[1]].executor_action)
                                         # None)}}

CleanupOrphanRuns ==
    {Run("cleanup_orphan_executions", cleanup_orphan_executions(StartState),
         NoProcess, FALSE, FALSE)}

CompleteTestingRuns ==
    {Run("complete_testing", complete_testing(StartState), NoProcess, FALSE, FALSE)}

\* the issues of a failed review do not reach the rows of the task: one list
\* of issues stands for all
ReviewOutcomes == {Pass, NeedsIntervention, Fail(<<"lint", "tests">>)}

HandleAiReviewResultRuns ==
    {Run("handle_ai_review_result", handle_ai_review_result(StartState, result),
         NoProcess, FALSE, FALSE) : result \in ReviewOutcomes}

ApproveHumanReviewRuns ==
    {Run("approve_human_review", approve_human_review(StartState), NoProcess, FALSE, FALSE)}

RejectHumanReviewRuns ==
    {Run("reject_human_review", reject_human_review(StartState), NoProcess, FALSE, FALSE)}

\* every run of an operation of the core that can happen in the current state
Runs ==
    StartWorkspaceRuns \cup StartExecutionRuns \cup ProcessExitRuns
    \cup CleanupOrphanRuns \cup CompleteTestingRuns \cup HandleAiReviewResultRuns
    \cup ApproveHumanReviewRuns \cup RejectHumanReviewRuns

\* --------------------------------------------------------------------- actions
Commit(r) ==
    /\ Len(r.s.procs) <= MaxProcs
    /\ task_status' = r.s.task
    /\ execution_processes' = r.s.procs
    /\ UNCHANGED <<workflow_config, probe>>

StartWorkspace == \E r \in StartWorkspaceRuns : Commit(r)

StartExecution == \E r \in StartExecutionRuns : Commit(r)

ProcessExit == \E r \in ProcessExitRuns : Commit(r)

CleanupOrphanExecutions == \E r \in CleanupOrphanRuns : Commit(r)

CompleteTesting == \E r \in CompleteTestingRuns : Commit(r)

HandleAiReviewResult == \E r \in HandleAiReviewResultRuns : Commit(r)

ApproveHumanReview == \E r \in ApproveHumanReviewRuns : Commit(r)

RejectHumanReview == \E r \in RejectHumanReviewRuns : Commit(r)

\* PATCH /projects/:id/workflow-config, the two gating flags of the payload
update_workflow_config(config, payload) ==
    [enable_human_review |->
        IF payload.enable_human_review # None
        THEN payload.enable_human_review[1] ELSE config.enable_human_review,
     testing_requires_manual_exit |->
        IF payload.testing_requires_manual_exit # None
        THEN payload.testing_requires_manual_exit[1]
        ELSE config.testing_requires_manual_exit]

OptionBool == {None, Some(TRUE), Some(FALSE)}

UpdateWorkflowConfig ==
    \E payload \in [enable_human_review : OptionBool,
                    testing_requires_manual_exit : OptionBool] :
        /\ workflow_config' = update_workflow_config(workflow_config, payload)
        /\ UNCHANGED <<task_status, execution_processes, probe>>

\* the whole handler on the stored config [enable_human_review,
\* max_ai_review_iterations, testing_requires_manual_exit]: the response and
\* the config stored when it returns
default_max_ai_review_iterations == 3

\* a u32 far above every valid value, standing for u32::MAX of the test (the
\* largest integer the model checker represents)
LargeU32 == 2147483647

MaxValidIterations == 50

patch_workflow_config_NoZeroCheck(config, payload) ==
    [response |-> "Ok",
     stored |-> [enable_human_review |->
                     update_workflow_config(config, payload).enable_human_review,
                 max_ai_review_iterations |->
                     IF payload.max_ai_review_iterations # None
                     THEN payload.max_ai_review_iterations[1]
                     ELSE config.max_ai_review_iterations,
                 testing_requires_manual_exit |->
                     update_workflow_config(config, payload).testing_requires_manual_exit]]

patch_workflow_config(config, payload) ==
    IF payload.max_ai_review_iterations = Some(0)
    THEN [response |-> "BadRequest", stored |-> config]
    ELSE [response |-> "Ok",
          stored |-> [enable_human_review |->
                          update_workflow_config(config, payload).enable_human_review,
                      max_ai_review_iterations |->
                          IF payload.max_ai_review_iterations # None
                          THEN payload.max_ai_review_iterations[1]
                          ELSE config.max_ai_review_iterations,
                      testing_requires_manual_exit |->
                          update_workflow_config(config, payload).testing_requires_manual_exit]]

NoProbe == [fn |-> "none"]

Init ==
    /\ task_status = "Todo"
    /\ workflow_config = WorkflowConfigDefault
    /\ execution_processes = <<>>
    /\ probe = NoProbe

Next ==
    \/ StartWorkspace
    \/ StartExecution
    \/ ProcessExit
    \/ CleanupOrphanExecutions
    \/ CompleteTesting
    \/ HandleAiReviewResult
    \/ ApproveHumanReview
    \/ RejectHumanReview
    \/ UpdateWorkflowConfig

Spec == Init /\ [][Next]_vars

\* ------------------------------------------------------- pure-function checks
\* The core rows keep their initial values; probe holds the arguments of one
\* call and, once the call is made, its result.
CoreIdle ==
    /\ task_status = "Todo"
    /\ workflow_config = WorkflowConfigDefault
    /\ execution_processes = <<>>

\* validate_status_transition(from, to, config)
OptionConfig == {None} \cup {Some(c) : c \in ProjectWorkflowConfig}

InitValidate ==
    /\ CoreIdle
    /\ probe \in [fn : {"validate_status_transition"}, from : TaskStatus, to : TaskStatus,
                  config : OptionConfig, done : {FALSE}, result : {"none"}]

CallValidate ==
    /\ probe.fn = "validate_status_transition" /\ ~probe.done
    /\ probe' = [probe EXCEPT !.done = TRUE,
                    !.result = validate_status_transition(probe.from, probe.to, probe.config)]
    /\ UNCHANGED <<task_status, workflow_config, execution_processes>>

NextValidate == CallValidate

SpecValidate == InitValidate /\ [][NextValidate]_vars

\* should_finalize(ctx)
ActionNodes ==
    {ScriptRequest(c, 1) : c \in ScriptContext}
    \cup {CodingAgentInitialRequest, CodingAgentFollowUpRequest}

MaxChain == 2

ActionChains == UNION {[1..n -> ActionNodes] : n \in 1..MaxChain}

InitShouldFinalize ==
    /\ CoreIdle
    /\ probe \in [fn : {"should_finalize"},
                  process : [run_reason : ExecutionProcessRunReason,
                             status : ExecutionProcessStatus,
                             executor_action : ActionChains,
                             exit_code : {None}],
                  done : {FALSE}, result : {FALSE}]

CallShouldFinalize ==
    /\ probe.fn = "should_finalize" /\ ~probe.done
    /\ probe' = [probe EXCEPT !.done = TRUE, !.result = should_finalize(probe.process)]
    /\ UNCHANGED <<task_status, workflow_config, execution_processes>>

NextShouldFinalize == CallShouldFinalize

SpecShouldFinalize == InitShouldFinalize /\ [][NextShouldFinalize]_vars

\* start_execution on a workspace whose repositories answer the git calls of
\* the capture loop with gits: the row is created with the captured repo states
MaxGitRepos == 2

Oids == {"abc", "def"}

GitResults ==
    [head_info : {ResultErr("")} \cup {ResultOk(o) : o \in Oids},
     is_rebase_in_progress : {ResultErr(FALSE), ResultOk(FALSE), ResultOk(TRUE)},
     get_conflicted_files : {ResultErr(<<>>), ResultOk(<<>>), ResultOk(<<"file1.rs">>)}]

InitStartGit ==
    /\ CoreIdle
    /\ \E n \in 1..MaxGitRepos :
          probe \in [fn : {"start_execution"}, gits : [1..n -> GitResults],
                     done : {FALSE}, ret : {"none"}, repo_states : {<<>>}]

CallStartExecution ==
    /\ probe.fn = "start_execution" /\ ~probe.done
    /\ LET s == start_execution(StartState, <<CodingAgentFollowUpRequest>>,
                                "CodingAgent", "ok")
       IN  /\ task_status' = s.task
           /\ execution_processes' = s.procs
           /\ probe' = [probe EXCEPT !.done = TRUE, !.ret = s.ret,
                           !.repo_states = capture_repo_states(probe.gits)]
    /\ UNCHANGED workflow_config

NextStartGit == CallStartExecution

SpecStartGit == InitStartGit /\ [][NextStartGit]_vars

\* try_start_next_action(ctx) for an exited process that should_finalize did not
\* finalize, on a task in any status; probe holds the rows it created, the
\* update_status calls it made and what it returned
InitNextAction ==
    /\ CoreIdle
    /\ probe \in [fn : {"try_start_next_action"},
                  task : TaskStatus,
                  process : {process \in [run_reason : ExecutionProcessRunReason,
                                           status : {"Completed", "Failed", "Killed"},
                                           executor_action : ActionChains,
                                           exit_code : {None}] :
                                ~should_finalize(process)},
                  outcome : StartOutcome,
                  done : {FALSE}, created : {<<>>}, writes : {<<>>}, ret : {"none"}]

CallTryStartNextAction ==
    /\ probe.fn = "try_start_next_action" /\ ~probe.done
    /\ LET s0 == [StartState EXCEPT !.task = probe.task, !.procs = <<probe.process>>]
           s  == try_start_next_action(s0, probe.process, probe.outcome)
       IN  probe' = [probe EXCEPT !.done = TRUE, !.created = Tail(s.procs),
                                  !.writes = s.writes, !.ret = s.ret]
    /\ UNCHANGED <<task_status, workflow_config, execution_processes>>

NextNextAction == CallTryStartNextAction

SpecNextAction == InitNextAction /\ [][NextNextAction]_vars

\* A workspace of up to MaxWorkspaceRepos repos is started and every process of
\* it exits Completed, every start succeeding: the chains of start_workspace
\* run to their end
MaxWorkspaceRepos == 2

WorkspaceRepoInputs ==
    {r \in UNION {[1..n -> ProjectRepo] : n \in 1..MaxWorkspaceRepos} :
        \A i \in 1..Len(r) : r[i].parallel_setup_script => r[i].setup_script}

InitWorkspace ==
    /\ CoreIdle
    /\ probe \in [fn : {"start_workspace"}, project_repos : WorkspaceRepoInputs,
                   started : {FALSE}]

WorkspaceStart ==
    /\ probe.fn = "start_workspace" /\ ~probe.started
    /\ LET s == start_workspace(StartState, probe.project_repos,
                    [k \in 1..ParallelSetups(probe.project_repos) |-> "ok"], "ok")
       IN  /\ task_status' = s.task
           /\ execution_processes' = s.procs
    /\ probe' = [probe EXCEPT !.started = TRUE]
    /\ UNCHANGED workflow_config

WorkspaceProcessCompleted ==
    /\ probe.fn = "start_workspace" /\ probe.started
    /\ \E p \in 1..Len(execution_processes), conflicts_resolved \in BOOLEAN :
          /\ execution_processes[p].status = "Running"
          /\ LET s == on_process_exit(StartState, p, "Completed", conflicts_resolved, "ok")
             IN  /\ task_status' = s.task
                 /\ execution_processes' = s.procs
    /\ UNCHANGED <<workflow_config, probe>>

NextWorkspace == WorkspaceStart \/ WorkspaceProcessCompleted

SpecWorkspace == InitWorkspace /\ [][NextWorkspace]_vars

\* build_sequential_setup_chain(repos, terminal) and the coding action of
\* start_workspace for a project of up to MaxWorkspaceRepos repos; the function
\* is handed every repo of the project or, as start_workspace does, only those
\* with a setup script
AllIdx(project_repos) == [i \in 1..Len(project_repos) |-> i]

InitBuildChain ==
    /\ CoreIdle
    /\ probe \in [fn : {"build_sequential_setup_chain"},
                  project_repos : UNION {[1..n -> ProjectRepo] : n \in 1..MaxWorkspaceRepos},
                  filtered : BOOLEAN,
                  terminal : ActionChains,
                  done : {FALSE}, chain : {<<>>}, coding_action : {<<>>}]

CallBuildChain ==
    /\ probe.fn = "build_sequential_setup_chain" /\ ~probe.done
    /\ LET repos == IF probe.filtered
                    THEN FilterIdx(probe.project_repos, 1, "setup_script")
                    ELSE AllIdx(probe.project_repos)
       IN  probe' = [probe EXCEPT
                        !.done = TRUE,
                        !.chain = build_sequential_setup_chain(probe.project_repos, repos,
                                                               probe.terminal),
                        !.coding_action = coding_action(probe.project_repos)]
    /\ UNCHANGED <<task_status, workflow_config, execution_processes>>

NextBuildChain == CallBuildChain

SpecBuildChain == InitBuildChain /\ [][NextBuildChain]_vars

\* A workspace is started and its processes exit one by one, Completed, Failed
\* or Killed, every start succeeding or failing in any way. probe.parent[q] is
\* the row whose exit handling created row q, 0 for a row start_workspace
\* created.
InitChain ==
    /\ CoreIdle
    /\ probe \in [fn : {"chain"}, project_repos : WorkspaceRepoInputs,
                   started : {FALSE}, parent : {<<>>}]

ChainStart ==
    /\ probe.fn = "chain" /\ ~probe.started
    /\ \E setup_outcome \in [1..ParallelSetups(probe.project_repos) -> StartOutcome],
          outcome \in StartOutcome :
          LET s == start_workspace(StartState, probe.project_repos, setup_outcome, outcome)
          IN  /\ task_status' = s.task
              /\ execution_processes' = s.procs
              /\ probe' = [probe EXCEPT !.started = TRUE,
                                        !.parent = [q \in 1..Len(s.procs) |-> 0]]
    /\ UNCHANGED workflow_config

ChainProcessExited ==
    /\ probe.fn = "chain" /\ probe.started
    /\ \E p \in 1..Len(execution_processes),
          status \in {"Completed", "Failed", "Killed"},
          conflicts_resolved \in BOOLEAN, outcome \in StartOutcome :
          /\ execution_processes[p].status = "Running"
          /\ LET s == on_process_exit(StartState, p, status, conflicts_resolved, outcome)
             IN  /\ task_status' = s.task
                 /\ execution_processes' = s.procs
                 /\ probe' = [probe EXCEPT !.parent =
                        [q \in 1..Len(s.procs) |->
                            IF q <= Len(execution_processes) THEN probe.parent[q] ELSE p]]
    /\ UNCHANGED workflow_config

NextChain == ChainStart \/ ChainProcessExited

SpecChain == InitChain /\ [][NextChain]_vars

\* A custom agent of any base is spawned (first run or follow-up); when it is
\* given a control-protocol task, the task makes its requests one by one, each
\* succeeding or failing
CustomAgents ==
    [base_agent : BaseAgentType \cup {"None"}, option : OptionBool,
     append_prompt : {<<>>, <<"append_prompt">>}]

NoChild ==
    [args |-> <<>>, peer |-> None, interrupt_sender |-> None, stdin |-> <<>>,
     stdin_closed |-> FALSE]

InitAgent ==
    /\ CoreIdle
    /\ probe \in [fn : {"spawn"}, agent : CustomAgents, follow_up : BOOLEAN,
                   spawned : {FALSE}, child : {NoChild},
                   task : {[pc |-> "none", calls |-> <<>>, raw_logs |-> <<>>]}]

CallSpawn ==
    /\ probe.fn = "spawn" /\ ~probe.spawned
    /\ LET child == spawn(probe.agent, probe.follow_up, "prompt")
       IN  probe' = [probe EXCEPT !.spawned = TRUE, !.child = child,
                        !.task.pc = IF child.peer # None THEN "initialize" ELSE "none"]
    /\ UNCHANGED <<task_status, workflow_config, execution_processes>>

ProtocolStep ==
    /\ probe.fn = "spawn" /\ probe.spawned
    /\ probe.task.pc \in {"initialize", "set_permission_mode", "send_user_message"}
    /\ \E ok \in BOOLEAN : probe' = [probe EXCEPT !.task = protocol_step(@, ok)]
    /\ UNCHANGED <<task_status, workflow_config, execution_processes>>

NextAgent == CallSpawn \/ ProtocolStep

SpecAgent == InitAgent /\ [][NextAgent]_vars

\* The review loop of one task: a follow-up request runs and completes, the
\* task is finalized, testing is completed, the AI review result is handled,
\* and after a Fail the next follow-up is started. probe.fails counts the
\* Fail results handled; the project's max_ai_review_iterations is any valid
\* value up to the default. At most MaxReviewCycles Fail results are fed in.
MaxReviewCycles == 4

InitReviewLoop ==
    /\ task_status = "Todo"
    /\ workflow_config \in ProjectWorkflowConfig
    /\ execution_processes = <<>>
    /\ probe \in [fn : {"review_loop"},
                   max_ai_review_iterations : 1..default_max_ai_review_iterations,
                   fails : {0}]

LoopStartExecution ==
    /\ probe.fn = "review_loop"
    /\ task_status \in {"Todo", "InProgress"}
    /\ Len(execution_processes) = probe.fails
    /\ LET s == start_execution(StartState, <<CodingAgentFollowUpRequest>>,
                                "CodingAgent", "ok")
       IN  task_status' = s.task /\ execution_processes' = s.procs
    /\ UNCHANGED <<workflow_config, probe>>

LoopProcessExit ==
    /\ probe.fn = "review_loop"
    /\ \E p \in 1..Len(execution_processes) :
          /\ execution_processes[p].status = "Running"
          /\ LET s == on_process_exit(StartState, p, "Completed", FALSE, "ok")
             IN  task_status' = s.task /\ execution_processes' = s.procs
    /\ UNCHANGED <<workflow_config, probe>>

LoopCompleteTesting ==
    /\ probe.fn = "review_loop"
    /\ task_status = "Testing"
    /\ LET s == complete_testing(StartState)
       IN  task_status' = s.task /\ execution_processes' = s.procs
    /\ UNCHANGED <<workflow_config, probe>>

LoopHandleAiReviewResult ==
    /\ probe.fn = "review_loop"
    /\ task_status = "InReview"
    /\ \E result \in ReviewOutcomes :
          /\ result.kind = "Fail" => probe.fails < MaxReviewCycles
          /\ LET s == handle_ai_review_result(StartState, result)
             IN  task_status' = s.task /\ execution_processes' = s.procs
          /\ probe' = [probe EXCEPT !.fails = IF result.kind = "Fail" THEN @ + 1 ELSE @]
    /\ UNCHANGED workflow_config

NextReviewLoop ==
    \/ LoopStartExecution
    \/ LoopProcessExit
    \/ LoopCompleteTesting
    \/ LoopHandleAiReviewResult

SpecReviewLoop == InitReviewLoop /\ [][NextReviewLoop]_vars

\* try_stop(workspace, include_dev_server) on a table of up to MaxStopRows
\* processes spread over the sessions of two workspaces; stop_ok[i] tells
\* whether stopping row i succeeds
MaxStopRows == 2

StopRows ==
    [session : 1..Len(session_workspace),
     run_reason : {"CodingAgent", "SetupScript", "DevServer"},
     status : {"Running", "Completed", "Killed"}]

InitTryStop ==
    /\ CoreIdle
    /\ \E n \in 1..MaxStopRows :
          probe \in [fn : {"try_stop"}, workspace : {1},
                     include_dev_server : BOOLEAN,
                     before : [1..n -> StopRows],
                     stop_ok : [1..n -> BOOLEAN],
                     done : {FALSE}, processes : {<<>>}, requested : {<<>>}]

CallTryStop ==
    /\ probe.fn = "try_stop" /\ ~probe.done
    /\ LET st == try_stop(probe.before, probe.workspace, probe.include_dev_server,
                          probe.stop_ok)
       IN  probe' = [probe EXCEPT !.done = TRUE, !.processes = st.processes,
                                  !.requested = st.requested]
    /\ UNCHANGED <<task_status, workflow_config, execution_processes>>

NextTryStop == CallTryStop

SpecTryStop == InitTryStop /\ [][NextTryStop]_vars

\* Startup recovery on the repo-state rows of up to MaxRecoveryRows processes:
\* cleanup_orphan_executions, then backfill_before_head_commits. A process
\* that is still Running has no after_head_commit yet.
MaxRecoveryRows == 2

RepoStateRows ==
    {row \in [status : {"Running", "Completed"},
              before_head_commit : {None} \cup {Some(o) : o \in Oids},
              after_head_commit : {None} \cup {Some(o) : o \in Oids}] :
        row.status = "Running" => row.after_head_commit = None}

InitRecovery ==
    /\ CoreIdle
    /\ \E n \in 1..MaxRecoveryRows :
          probe \in [fn : {"recovery"}, phase : {"start"},
                     legacy : [1..n -> RepoStateRows], rows : {<<>>},
                     head_info : {ResultErr(""), ResultOk("head")},
                     branch_oid : {ResultErr(""), ResultOk("base")}]

RecoveryCleanupOrphans ==
    /\ probe.fn = "recovery" /\ probe.phase = "start"
    /\ probe' = [probe EXCEPT !.phase = "cleaned",
                     !.rows = cleanup_orphan_repo_states(probe.legacy, probe.head_info)]
    /\ UNCHANGED <<task_status, workflow_config, execution_processes>>

RecoveryBackfill ==
    /\ probe.fn = "recovery" /\ probe.phase = "cleaned"
    /\ probe' = [probe EXCEPT !.phase = "backfilled",
                     !.rows = backfill_before_head_commits(probe.rows, probe.branch_oid)]
    /\ UNCHANGED <<task_status, workflow_config, execution_processes>>

NextRecovery == RecoveryCleanupOrphans \/ RecoveryBackfill

SpecRecovery == InitRecovery /\ [][NextRecovery]_vars

\* handle_ai_review_result(task, result) on a task in any status, in a project
\* with any workflow config
InitReview ==
    /\ task_status \in TaskStatus
    /\ workflow_config \in ProjectWorkflowConfig
    /\ execution_processes = <<>>
    /\ probe \in [fn : {"handle_ai_review_result"}, result : AIReviewResult,
                   from : {task_status}, done : {FALSE}, ret : {"none"},
                   writes : {<<>>}, subtasks : {<<>>}, trace : {<<>>},
                   publisher : SharePublisher, shares : {<<>>}]

CallHandleAiReviewResult ==
    /\ probe.fn = "handle_ai_review_result" /\ ~probe.done
    /\ LET s == handle_ai_review_result(WithPublisher(StartState, probe.publisher),
                                        probe.result)
       IN  /\ task_status' = s.task
           /\ probe' = [probe EXCEPT !.done = TRUE, !.ret = s.ret, !.writes = s.writes,
                           !.subtasks = s.subtasks, !.trace = s.trace,
                           !.shares = s.shares]
    /\ UNCHANGED <<workflow_config, execution_processes>>

NextReview == CallHandleAiReviewResult

SpecReview == InitReview /\ [][NextReview]_vars

\* The log streams of an execution id: either its in-memory store holds up to
\* MaxLogItems items, followed or not by Finished, or there is no store and
\* the persisted log holds up to MaxLogItems lines (the pump persists Stdout
\* and Stderr, a failed start a JsonPatch line)
MaxLogItems == 3

\* the items of the given kinds, numbered in order
Numbered(kinds) == [i \in 1..Len(kinds) |-> [kind |-> kinds[i], id |-> i]]

MsgStores ==
    UNION {{Numbered(kinds) \o tail :
                kinds \in [1..n -> LogMsgKind \ {"Finished"}],
                tail \in {<<>>, <<Finished>>}} : n \in 0..MaxLogItems}

PersistedLogs ==
    UNION {{Numbered(kinds) : kinds \in [1..n -> {"Stdout", "Stderr", "JsonPatch"}]} :
              n \in 0..MaxLogItems}

InitLogs ==
    /\ CoreIdle
    /\ \/ probe \in [fn : {"stream_logs"}, stream : {"raw", "normalized"},
                      msg_store : {Some(store) : store \in MsgStores},
                      log_records : {<<>>}, coding : {TRUE}, patches : {0},
                      done : {FALSE}, result : {None}]
       \/ probe \in [fn : {"stream_logs"}, stream : {"raw", "normalized"},
                      msg_store : {None},
                      log_records : PersistedLogs, coding : BOOLEAN, patches : {0, 1},
                      done : {FALSE}, result : {None}]

CallStreamRawLogs ==
    /\ probe.fn = "stream_logs" /\ probe.stream = "raw" /\ ~probe.done
    /\ probe' = [probe EXCEPT !.done = TRUE,
                     !.result = stream_raw_logs(probe.msg_store, probe.log_records)]
    /\ UNCHANGED <<task_status, workflow_config, execution_processes>>

CallStreamNormalizedLogs ==
    /\ probe.fn = "stream_logs" /\ probe.stream = "normalized" /\ ~probe.done
    /\ probe' = [probe EXCEPT !.done = TRUE,
                     !.result = stream_normalized_logs(probe.msg_store, probe.log_records,
                                                       probe.coding, probe.patches)]
    /\ UNCHANGED <<task_status, workflow_config, execution_processes>>

NextLogs == CallStreamRawLogs \/ CallStreamNormalizedLogs

SpecLogs == InitLogs /\ [][NextLogs]_vars

\* The persistence pump on a store that delivers up to MaxLogItems items of any
\* kind, Finished anywhere among them: each step is one turn of its loop;
\* probe.delivered counts the items the stream has handed over
PumpStores ==
    UNION {{Numbered(kinds) : kinds \in [1..n -> LogMsgKind]} : n \in 0..MaxLogItems}

InitPump ==
    /\ CoreIdle
    /\ probe \in [fn : {"spawn_stream_raw_logs_to_db"}, store : PumpStores,
                   delivered : {0},
                   pump : {[log_lines |-> <<>>, agent_session_ids |-> <<>>,
                            stopped |-> FALSE]}]

PumpNext ==
    /\ probe.fn = "spawn_stream_raw_logs_to_db"
    /\ ~probe.pump.stopped
    /\ probe.delivered < Len(history_plus_stream(probe.store))
    /\ probe' = [probe EXCEPT
                    !.delivered = @ + 1,
                    !.pump = pump_item(@, history_plus_stream(probe.store)[probe.delivered + 1])]
    /\ UNCHANGED <<task_status, workflow_config, execution_processes>>

NextPump == PumpNext

SpecPump == InitPump /\ [][NextPump]_vars

\* PATCH /projects/:id/workflow-config, any number of times, on a project that
\* starts with the default config; probe holds the stored config, the last
\* request, the config stored before it and the response to it
IterationValues == {0, 1, default_max_ai_review_iterations, MaxValidIterations,
                    MaxValidIterations + 1, LargeU32}

UpdateWorkflowConfigRequest ==
    [enable_human_review : OptionBool,
     max_ai_review_iterations : {None} \cup {Some(v) : v \in IterationValues},
     testing_requires_manual_exit : OptionBool]

StoredWorkflowConfigDefault ==
    [enable_human_review |-> default_enable_human_review,
     max_ai_review_iterations |-> default_max_ai_review_iterations,
     testing_requires_manual_exit |-> default_testing_requires_manual_exit]

NoRequest ==
    [enable_human_review |-> None, max_ai_review_iterations |-> None,
     testing_requires_manual_exit |-> None]

InitConfig ==
    /\ CoreIdle
    /\ probe = [fn |-> "update_workflow_config", stored |-> StoredWorkflowConfigDefault,
                before |-> StoredWorkflowConfigDefault, payload |-> NoRequest,
                response |-> "none"]

PatchWorkflowConfig ==
    /\ probe.fn = "update_workflow_config"
    /\ \E payload \in UpdateWorkflowConfigRequest :
          LET r == patch_workflow_config(probe.stored, payload)
          IN  probe' = [probe EXCEPT !.before = probe.stored, !.payload = payload,
                                     !.stored = r.stored, !.response = r.response]
    /\ UNCHANGED <<task_status, workflow_config, execution_processes>>

NextConfig == PatchWorkflowConfig

SpecConfig == InitConfig /\ [][NextConfig]_vars

\* check_conflicts_resolved(ctx): the repo states of the process and the
\* current conflict state of the same repos
BoolSeqs(n) == [1..n -> BOOLEAN]

InitConflicts ==
    /\ CoreIdle
    /\ \E n \in 0..MaxRepoStates :
          probe \in [fn : {"check_conflicts_resolved"},
                     had_conflicts_before : BoolSeqs(n), current_conflicts : BoolSeqs(n),
                     done : {FALSE}, result : {FALSE}]

CallCheckConflictsResolved ==
    /\ probe.fn = "check_conflicts_resolved" /\ ~probe.done
    /\ probe' = [probe EXCEPT !.done = TRUE,
                    !.result = check_conflicts_resolved(probe.had_conflicts_before,
                                                        probe.current_conflicts)]
    /\ UNCHANGED <<task_status, workflow_config, execution_processes>>

NextConflicts == CallCheckConflictsResolved

SpecConflicts == InitConflicts /\ [][NextConflicts]_vars

\* ======================================================================= claims
\* the step just taken is run r
Took(r) ==
    /\ task_status' = r.s.task
    /\ execution_processes' = r.s.procs
    /\ UNCHANGED workflow_config

Writes(r) == {r.s.writes[i] : i \in 1..Len(r.s.writes)}

\* C1: across any sequence of operations of the core, a task whose status is
\* Done or Cancelled never afterwards has any other status (no operation
\* writes another status over Done or Cancelled).
C1_TerminalStatusIsFinal ==
    [][\A r \in Runs : Took(r) =>
          \A w \in Writes(r) : w.from \in {"Done", "Cancelled"} => w.to = w.from]_vars

\* C2: every task status change written by an operation of the core is a
\* transition that validate_status_transition accepts for the project's
\* workflow config at the time of the write.
C2_WritesAreValidTransitions ==
    [][\A r \in Runs : Took(r) =>
          \A w \in Writes(r) :
              validate_status_transition(w.from, w.to, Some(w.config)) = Ok]_vars

\* C3: validate_status_transition returns Ok exactly for the pairs of the
\* transition table (self-transitions; Todo to InProgress, Cancelled;
\* InProgress to Testing, Done, Cancelled and, only without manual exit,
\* InReview; Testing to InReview, InProgress, Done, Cancelled; InReview to
\* Done, Cancelled and, only with human review, HumanReview; HumanReview to
\* Done, InProgress, Cancelled), Err for every other pair; a missing config
\* behaves as enable_human_review = false, testing_requires_manual_exit = true.
TransitionTable(from, to, enable_human_review, testing_requires_manual_exit) ==
    \/ from = to
    \/ from = "Todo" /\ to \in {"InProgress", "Cancelled"}
    \/ from = "InProgress" /\ to \in {"Testing", "Done", "Cancelled"}
    \/ from = "InProgress" /\ to = "InReview" /\ ~testing_requires_manual_exit
    \/ from = "Testing" /\ to \in {"InReview", "InProgress", "Done", "Cancelled"}
    \/ from = "InReview" /\ to \in {"Done", "Cancelled"}
    \/ from = "InReview" /\ to = "HumanReview" /\ enable_human_review
    \/ from = "HumanReview" /\ to \in {"Done", "InProgress", "Cancelled"}

C3_ValidateMatchesTable ==
    (probe.fn = "validate_status_transition" /\ probe.done) =>
        LET ehr  == IF probe.config = None THEN FALSE
                    ELSE probe.config[1].enable_human_review
            trme == IF probe.config = None THEN TRUE
                    ELSE probe.config[1].testing_requires_manual_exit
        IN  (probe.result = Ok) <=> TransitionTable(probe.from, probe.to, ehr, trme)

C3_Witness ==
    /\ probe.fn = "validate_status_transition" /\ probe.done
    /\ probe.from = "InProgress" /\ probe.to = "InReview"
    /\ probe.config = Some([enable_human_review |-> FALSE,
                            testing_requires_manual_exit |-> FALSE])
    /\ probe.result = Ok

\* C4: while testing_requires_manual_exit is true, no operation changes a
\* task's status directly from InProgress to InReview.
C4_NoTestingBypass ==
    [][\A r \in Runs : Took(r) =>
          \A w \in Writes(r) :
              ~(w.config.testing_requires_manual_exit
                /\ w.from = "InProgress" /\ w.to = "InReview")]_vars

\* C5: while enable_human_review is false, no operation changes a task's
\* status from InReview to HumanReview: in every reachable state, no run of an
\* operation makes such a write under a config with enable_human_review false.
C5_NoHumanReviewWhenDisabled ==
    \A r \in Runs :
        \A w \in Writes(r) :
            ~(~w.config.enable_human_review
              /\ w.from = "InReview" /\ w.to = "HumanReview")

\* an InReview task of a project without human review, whose AI review passes
C5_Witness ==
    /\ task_status = "InReview" /\ ~workflow_config.enable_human_review
    /\ \E r \in HandleAiReviewResultRuns :
          r.s.writes = <<[from |-> "InReview", to |-> "Done", config |-> workflow_config]>>

\* C6: when a process exits and should_finalize returns false, the handling of
\* the exit (try_start_next_action, the start_execution it performs and its
\* failure path) leaves the task's status unchanged.
C6_NoStatusChangeWithoutFinalize ==
    [][\A r \in ProcessExitRuns : (Took(r) /\ ~r.finalize) =>
          (r.s.writes = <<>> /\ task_status' = task_status)]_vars


\* C7 (as claimed): should_finalize returns true for every execution process
\* whose status is Failed or Killed, whatever its run_reason and whether or not
\* it has a next_action.
C7_FailedOrKilledAlwaysFinalizes ==
    (probe.fn = "should_finalize" /\ probe.done
        /\ probe.process.status \in {"Failed", "Killed"}) => probe.result = TRUE

\* C7 (amended): for a process whose status is Failed or Killed, should_finalize
\* returns false when its run_reason is DevServer or when it is a SetupScript
\* without next_action, and true in every other case, with or without a
\* next_action.
C7_FailedOrKilledFinalizesUnlessExempt ==
    (probe.fn = "should_finalize" /\ probe.done
        /\ probe.process.status \in {"Failed", "Killed"}) =>
        (probe.result <=>
            ~(\/ probe.process.run_reason = "DevServer"
              \/ /\ probe.process.run_reason = "SetupScript"
                 /\ Len(probe.process.executor_action) = 1))

\* a Killed coding agent that still has a next action is finalized
C7_Witness ==
    /\ probe.fn = "should_finalize" /\ probe.done
    /\ probe.process.status = "Killed" /\ probe.process.run_reason = "CodingAgent"
    /\ Len(probe.process.executor_action) = 2
    /\ probe.result = TRUE

C9_FinalStatusFollowsConflicts ==
    [][\A r \in ProcessExitRuns : (Took(r) /\ r.finalize) =>
          task_status' = determine_final_status(r.process.status, r.resolved)]_vars

\* C10: check_conflicts_resolved returns true iff at least one repo state has
\* had_conflicts_before and every repo that has had_conflicts_before currently
\* has no conflicts; current conflicts of a repo without had_conflicts_before
\* do not affect the result, and an empty repo set yields false.
C10_ResolvedIffEveryFormerConflictGone ==
    (probe.fn = "check_conflicts_resolved" /\ probe.done) =>
        (probe.result <=>
            /\ \E i \in 1..Len(probe.had_conflicts_before) : probe.had_conflicts_before[i]
            /\ \A i \in 1..Len(probe.had_conflicts_before) :
                  probe.had_conflicts_before[i] => ~probe.current_conflicts[i])

\* C11: when start_execution_inner fails, start_execution ends with the newly
\* created row Failed with no exit code, the task InReview, a Stderr line
\* "Failed to start execution: {err}" appended to the log of that process,
\* followed by the JsonPatch ErrorMessage{SetupRequired} at index 2 exactly
\* when the cause is ExecutableNotFound, and the start error returned.
C11_StartFailureIsRecorded ==
    \A d \in DirectStarts : \A outcome \in {"executable_not_found", "spawn_error"} :
        LET s == start_execution(StartState, d[1], d[2], outcome)
            p == Len(execution_processes) + 1
        IN  /\ Len(s.procs) = p
            /\ s.procs[p] = [run_reason |-> d[2], status |-> "Failed",
                             executor_action |-> d[1], exit_code |-> None]
            /\ \A q \in 1..Len(execution_processes) : s.procs[q] = execution_processes[q]
            /\ s.task = "InReview"
            /\ s.logs =
                  <<[process |-> p, line |-> StderrLine(start_error(outcome))]>>
                  \o (IF outcome = "executable_not_found"
                      THEN <<[process |-> p, line |-> SetupRequiredPatch]>> ELSE <<>>)
            /\ s.ret = start_error(outcome)
            /\ s.ret \in {"ExecutableNotFound", "SpawnError"}

\* a start that failed because the executable was not found: the row is
\* Failed without exit code and the task is InReview
C11_Witness ==
    /\ task_status = "InReview"
    /\ \E p \in 1..Len(execution_processes) :
          /\ execution_processes[p].status = "Failed"
          /\ execution_processes[p].exit_code = None
    /\ \E r \in StartExecutionRuns :
          /\ r.s.ret = "ExecutableNotFound"
          /\ Len(r.s.logs) = 2 /\ r.s.logs[2].line = SetupRequiredPatch

\* a git call of the capture loop failed for repository i
GitFailed(i) ==
    \/ ~probe.gits[i].head_info.ok
    \/ ~probe.gits[i].is_rebase_in_progress.ok
    \/ ~probe.gits[i].get_conflicted_files.ok

\* C12 (as claimed): git errors are fatal at start: if capturing a repository's
\* HEAD or probing its conflicts fails, start_execution returns an error and no
\* process is run with a missing before_head_commit.
C12_GitErrorsFatalAtStart ==
    (probe.fn = "start_execution" /\ probe.done
        /\ \E i \in 1..Len(probe.gits) : GitFailed(i)) =>
        /\ probe.ret # "Ok"
        /\ ~\E p \in 1..Len(execution_processes) :
              /\ execution_processes[p].status = "Running"
              /\ \E i \in 1..Len(probe.repo_states) :
                    probe.repo_states[i].before_head_commit = None

\* C12 (amended): git errors are not fatal at start: start_execution returns
\* Ok and runs the process whatever the git calls answer; a repository whose
\* HEAD cannot be captured gets before_head_commit unset (otherwise the HEAD's
\* oid), and a conflict probe that fails counts as no conflict:
\* had_conflicts_before is true exactly when a probe that succeeded found a
\* rebase in progress or conflicted files.
C12_GitErrorsToleratedAtStart ==
    (probe.fn = "start_execution" /\ probe.done) =>
        /\ probe.ret = "Ok"
        /\ Len(execution_processes) = 1 /\ execution_processes[1].status = "Running"
        /\ Len(probe.repo_states) = Len(probe.gits)
        /\ \A i \in 1..Len(probe.gits) :
              LET git == probe.gits[i]
                  state == probe.repo_states[i]
              IN  /\ ~git.head_info.ok => state.before_head_commit = None
                  /\ git.head_info.ok => state.before_head_commit = <<git.head_info.value>>
                  /\ state.had_conflicts_before <=>
                        \/ git.is_rebase_in_progress = ResultOk(TRUE)
                        \/ /\ git.get_conflicted_files.ok
                           /\ Len(git.get_conflicted_files.value) > 0

\* a start during which the HEAD of a repository could not be read and the
\* rebase probe failed: the process runs, before_head_commit is unset
C12_Witness ==
    /\ probe.fn = "start_execution" /\ probe.done
    /\ ~probe.gits[1].head_info.ok /\ ~probe.gits[1].is_rebase_in_progress.ok
    /\ probe.ret = "Ok"
    /\ execution_processes # <<>> /\ execution_processes[1].status = "Running"
    /\ probe.repo_states[1].before_head_commit = None
    /\ ~probe.repo_states[1].had_conflicts_before

\* the workspace has just been started: start_workspace has returned and no
\* process has exited yet
JustStarted ==
    /\ probe.fn = "start_workspace" /\ probe.started
    /\ \A p \in 1..Len(execution_processes) : execution_processes[p].status = "Running"

\* the action is the coding action: the initial request, followed by nothing
\* but cleanup scripts
IsCodingAction(action) ==
    /\ action # <<>> /\ action[1] = CodingAgentInitialRequest
    /\ \A k \in 2..Len(action) : action[k].context = "CleanupScript"

\* C13: start_workspace creates processes according to the set S of repos that
\* have a setup script: S empty, only the coding action with run_reason
\* CodingAgent; every repo of S parallel, one SetupScript process per repo of S
\* with next_action None and separately one CodingAgent process; otherwise
\* exactly one process with run_reason SetupScript, the head of the chain of
\* the setup scripts of S in repo order followed by the coding action.
C13_StartWorkspaceProcesses ==
    JustStarted =>
        LET repos == probe.project_repos
            S == {i \in 1..Len(repos) : repos[i].setup_script}
            n == Cardinality(S)
            procs == execution_processes
        IN  IF S = {}
            THEN /\ Len(procs) = 1
                 /\ procs[1].run_reason = "CodingAgent"
                 /\ IsCodingAction(procs[1].executor_action)
            ELSE IF \A i \in S : repos[i].parallel_setup_script
            THEN /\ Len(procs) = n + 1
                 /\ \A k \in 1..n :
                       /\ procs[k].run_reason = "SetupScript"
                       /\ Len(procs[k].executor_action) = 1
                       /\ procs[k].executor_action[1].context = "SetupScript"
                 /\ {procs[k].executor_action[1].repo : k \in 1..n} = S
                 /\ procs[n + 1].run_reason = "CodingAgent"
                 /\ IsCodingAction(procs[n + 1].executor_action)
            ELSE /\ Len(procs) = 1
                 /\ procs[1].run_reason = "SetupScript"
                 /\ LET action == procs[1].executor_action
                    IN  /\ Len(action) > n
                        /\ \A k \in 1..n : action[k].context = "SetupScript"
                        /\ {action[k].repo : k \in 1..n} = S
                        /\ \A k \in 1..(n - 1) : action[k].repo < action[k + 1].repo
                        /\ IsCodingAction(SubSeq(action, n + 1, Len(action)))

\* two repos with parallel setup scripts: two SetupScript processes and the
\* coding agent are running side by side
C13_Witness ==
    /\ JustStarted
    /\ Len(probe.project_repos) = 2
    /\ \A i \in 1..2 : probe.project_repos[i].parallel_setup_script
    /\ Len(execution_processes) = 3
    /\ execution_processes[2].run_reason = "SetupScript"
    /\ execution_processes[3].run_reason = "CodingAgent"

\* the last action of the chain start_workspace builds: the last cleanup
\* script, or the coding action when no repo has a cleanup script
LastAction(project_repos) ==
    LET chain == <<CodingAgentInitialRequest>> \o cleanup_actions_for_repos(project_repos)
    IN  chain[Len(chain)]

\* C14 (finite-run form): once every process of a started workspace has exited
\* Completed and nothing is left running, the last action of the chain has run
\* and the task has been advanced from InProgress to Testing.
C14_CompletedChainReachesTesting ==
    (/\ probe.fn = "start_workspace" /\ probe.started
     /\ \A p \in 1..Len(execution_processes) :
           execution_processes[p].status = "Completed") =>
        /\ \E p \in 1..Len(execution_processes) :
              execution_processes[p].executor_action = <<LastAction(probe.project_repos)>>
        /\ task_status = "Testing"

\* the processes cleanup_orphan_executions finds running
Orphans == {p \in 1..Len(execution_processes) : execution_processes[p].status = "Running"}

\* C15: after cleanup_orphan_executions no process is Running: every process
\* that was Running is Failed with no exit code (the other rows are untouched);
\* the task is InReview as soon as one orphan has run_reason CodingAgent,
\* SetupScript or CleanupScript (one InReview write per such orphan), and a
\* DevServer orphan causes no write: with DevServer orphans only, the task's
\* status is unchanged.
C15_OrphansFailedTaskInReview ==
    LET s == cleanup_orphan_executions(StartState)
        reviewed == {p \in Orphans : execution_processes[p].run_reason # "DevServer"}
    IN  /\ Len(s.procs) = Len(execution_processes)
        /\ \A p \in 1..Len(s.procs) :
              /\ s.procs[p].status # "Running"
              /\ p \in Orphans =>
                    s.procs[p] = [execution_processes[p] EXCEPT !.status = "Failed",
                                                                !.exit_code = None]
              /\ p \notin Orphans => s.procs[p] = execution_processes[p]
        /\ reviewed # {} => s.task = "InReview"
        /\ reviewed = {} => s.task = task_status
        /\ Len(s.writes) = Cardinality(reviewed)
        /\ \A w \in 1..Len(s.writes) : s.writes[w].to = "InReview"
        /\ s.ret = "Ok"

\* a dev server alone is orphaned while the task is in Testing: the cleanup
\* fails the row and leaves the task in Testing
C15_Witness ==
    /\ task_status = "Testing"
    /\ Orphans # {}
    /\ \A p \in Orphans : execution_processes[p].run_reason = "DevServer"
    /\ \E r \in CleanupOrphanRuns :
          /\ r.s.task = "Testing"
          /\ \A p \in Orphans : r.s.procs[p].status = "Failed" /\ r.s.procs[p].exit_code = None

\* recovery is over
Recovered == probe.fn = "recovery" /\ probe.phase = "backfilled"

\* the after_head_commit of the process before process i, if any
PreviousAfter(i) == IF i = 1 THEN None ELSE probe.rows[i - 1].after_head_commit

\* C16 (as claimed): after startup recovery every repo-state row that has
\* after_head_commit set also has before_head_commit set; a row that missed it
\* got the previous process's after_head_commit when there is one, otherwise
\* the base branch's OID.
C16_AfterImpliesBefore ==
    Recovered =>
        \A i \in 1..Len(probe.rows) :
            probe.rows[i].after_head_commit # None =>
                /\ probe.rows[i].before_head_commit # None
                /\ probe.legacy[i].before_head_commit = None =>
                      probe.rows[i].before_head_commit =
                          IF PreviousAfter(i) # None THEN PreviousAfter(i) ELSE <<"base">>

\* C16 (amended): after startup recovery every repo-state row that has
\* after_head_commit set and missed before_head_commit has it set to the
\* previous process's after_head_commit when there is one, otherwise to the
\* base branch's OID when that can be resolved; when it cannot, the row keeps
\* before_head_commit unset. No other before_head_commit is changed.
C16_AfterImpliesBeforeWhenResolvable ==
    Recovered =>
        /\ Len(probe.rows) = Len(probe.legacy)
        /\ \A i \in 1..Len(probe.rows) :
              LET row == probe.rows[i]
                  missing == /\ row.after_head_commit # None
                             /\ probe.legacy[i].before_head_commit = None
              IN  /\ ~missing => row.before_head_commit = probe.legacy[i].before_head_commit
                  /\ (missing /\ PreviousAfter(i) # None) =>
                        row.before_head_commit = PreviousAfter(i)
                  /\ (missing /\ PreviousAfter(i) = None /\ probe.branch_oid.ok) =>
                        row.before_head_commit = <<probe.branch_oid.value>>
                  /\ (missing /\ PreviousAfter(i) = None /\ ~probe.branch_oid.ok) =>
                        row.before_head_commit = None

\* an orphaned first process whose HEAD was read by the cleanup while the base
\* branch cannot be resolved keeps before_head_commit unset; the second
\* process gets the first one's after_head_commit
C16_Witness ==
    /\ Recovered
    /\ ~probe.branch_oid.ok
    /\ Len(probe.rows) = 2
    /\ probe.legacy[1].status = "Running" /\ probe.rows[1].status = "Failed"
    /\ probe.rows[1].after_head_commit = <<"head">>
    /\ probe.rows[1].before_head_commit = None
    /\ probe.legacy[2].before_head_commit = None
    /\ probe.rows[2].before_head_commit = <<"head">>

\* C17: complete_testing succeeds only for a task whose status is Testing: it
\* then sets the task to InReview, triggers the AI self-review once and returns
\* InReview; for a task in any other status it returns InvalidStatusTransition,
\* changes no status and triggers no review.
C17_CompleteTestingOnlyFromTesting ==
    LET s == complete_testing(StartState)
    IN  IF task_status = "Testing"
        THEN s.task = "InReview" /\ s.reviews = 1 /\ s.ret = "InReview"
        ELSE /\ s.ret = "InvalidStatusTransition"
             /\ s.task = task_status /\ s.writes = <<>>
             /\ s.reviews = 0

\* handle_ai_review_result has returned
Reviewed == probe.fn = "handle_ai_review_result" /\ probe.done

\* C18: handle_ai_review_result(task, Pass) sets the task's status to
\* HumanReview when the project's enable_human_review is true and to Done when
\* it is false (one write, whatever the status the task had).
C18_PassSetsHumanReviewOrDone ==
    (Reviewed /\ probe.result = Pass) =>
        /\ workflow_config.enable_human_review => task_status = "HumanReview"
        /\ ~workflow_config.enable_human_review => task_status = "Done"
        /\ Len(probe.writes) = 1 /\ probe.writes[1].to = task_status

\* a task in review of a project with human review enabled has passed the
\* review: it is in HumanReview
C18_Witness ==
    /\ Reviewed /\ probe.result = Pass
    /\ probe.from = "InReview"
    /\ workflow_config.enable_human_review
    /\ task_status = "HumanReview"

\* C19: for every review result and every config, the status returned by
\* handle_ai_review_result for a task under AI review equals the status the
\* task has in storage when the call returns.
C19_ReturnedStatusIsStoredStatus ==
    (Reviewed /\ probe.from = "InReview") => probe.ret = task_status

\* C20: handle_ai_review_result(task, Fail{issues}) creates exactly one new
\* task per issue, in order, each with status Todo, title 'Fix: {issue}' and
\* the parent's project_id, then sets the parent task to InProgress and
\* returns InProgress; every Task::create precedes the Task::update_status of
\* the parent.
C20_FailCreatesSubtasksThenInProgress ==
    (Reviewed /\ probe.result.kind = "Fail") =>
        LET issues == probe.result.issues
        IN  /\ Len(probe.subtasks) = Len(issues)
            /\ \A k \in 1..Len(issues) :
                  /\ probe.subtasks[k].status = "Todo"
                  /\ probe.subtasks[k].title = <<"Fix: ", issues[k]>>
                  /\ probe.subtasks[k].project_id = project_id
            /\ task_status = "InProgress" /\ probe.ret = "InProgress"
            /\ Len(probe.writes) = 1 /\ probe.writes[1].to = "InProgress"
            /\ probe.trace = [k \in 1..(Len(issues) + 1) |->
                                IF k <= Len(issues) THEN "Task::create"
                                ELSE "Task::update_status"]

\* a task in review has failed the review with two issues: two subtasks were
\* created, then the parent was put back in progress
C20_Witness ==
    /\ Reviewed /\ probe.from = "InReview"
    /\ probe.result = Fail(<<"lint", "tests">>)
    /\ Len(probe.subtasks) = 2
    /\ probe.subtasks[1].title = <<"Fix: ", "lint">>
    /\ probe.subtasks[2].title = <<"Fix: ", "tests">>
    /\ probe.trace = <<"Task::create", "Task::create", "Task::update_status">>
    /\ task_status = "InProgress"

\* C21: handle_ai_review_result(task, NeedsIntervention) leaves the task where
\* it is, in InReview for a task under AI review: it writes no task status,
\* creates no subtask, makes no share update and returns InReview.
C21_NeedsInterventionChangesNothing ==
    (Reviewed /\ probe.result = NeedsIntervention) =>
        /\ task_status = probe.from
        /\ probe.from = "InReview" => task_status = "InReview"
        /\ probe.writes = <<>>
        /\ probe.subtasks = <<>>
        /\ probe.shares = <<>>
        /\ probe.trace = <<>>
        /\ probe.ret = "InReview"

\* a task under AI review, with a working share publisher, for which the
\* review asked for intervention
C21_Witness ==
    /\ Reviewed /\ probe.result = NeedsIntervention
    /\ probe.from = "InReview" /\ probe.publisher = "ok"
    /\ task_status = "InReview" /\ probe.ret = "InReview"

\* C22: approve_human_review sets a HumanReview task to Done and
\* reject_human_review sets a HumanReview task to InProgress; for a task in
\* any other status (different from the target status) each returns
\* InvalidStatusTransition and leaves the status unchanged.
C22_HumanReviewHandlersOnlyFromHumanReview ==
    LET approved == approve_human_review(StartState)
        rejected == reject_human_review(StartState)
    IN  /\ task_status = "HumanReview" =>
              /\ approved.task = "Done" /\ approved.ret = "Done"
              /\ rejected.task = "InProgress" /\ rejected.ret = "InProgress"
        /\ task_status \notin {"HumanReview", "Done"} =>
              /\ approved.ret = "InvalidStatusTransition"
              /\ approved.task = task_status /\ approved.writes = <<>>
        /\ task_status \notin {"HumanReview", "InProgress"} =>
              /\ rejected.ret = "InvalidStatusTransition"
              /\ rejected.task = task_status /\ rejected.writes = <<>>

\* the final working states of the operations of the core that write a task
\* status, run from working state s0 in the current state
StatusWritingOperations(s0) ==
    {start_execution(s0, d[1], d[2], outcome) : d \in DirectStarts, outcome \in StartOutcome}
    \cup {on_process_exit(s0, a[1], a[2], a[3], a[4]) :
            a \in {b \in (1..Len(execution_processes)) \X {"Completed", "Failed", "Killed"}
                            \X BOOLEAN \X InnerOutcome :
                     execution_processes[b[1]].status = "Running"}}
    \cup {handle_ai_review_result(s0, result) : result \in ReviewOutcomes}
    \cup {cleanup_orphan_executions(s0), complete_testing(s0),
          approve_human_review(s0), reject_human_review(s0)}

\* what an operation leaves behind and answers
Effect(s) == [task |-> s.task, procs |-> s.procs, writes |-> s.writes, ret |-> s.ret]

\* C23: whenever a SharePublisher is configured, every task status change
\* written by the core (start of execution, failed start, finalisation, orphan
\* cleanup, each result handler) is followed by a share update for the task
\* before anything else is written, and a failing share update changes neither
\* the result of the operation nor what it stored.
C23_EveryStatusWriteIsShared ==
    /\ \A publisher \in {"ok", "err"} :
          \A s \in StatusWritingOperations(WithPublisher(StartState, publisher)) :
              \A w \in 1..Len(s.writes) :
                  \E k \in 1..Len(s.shares) : s.shares[k].after_write = w
    /\ {Effect(s) : s \in StatusWritingOperations(WithPublisher(StartState, "err"))}
         = {Effect(s) : s \in StatusWritingOperations(WithPublisher(StartState, "ok"))}

\* the processes that run the workspace on their own: neither a dev server nor
\* a parallel-mode setup script (a SetupScript without next_action)
IsChainProcess(process) ==
    /\ process.run_reason # "DevServer"
    /\ ~(process.run_reason = "SetupScript" /\ next_action(process.executor_action) = None)

\* C24: at most one execution of the workspace is Running at a time, parallel
\* setup scripts (and dev servers) apart: two calls of start_execution or
\* start_workspace never leave two coding-agent or chain processes Running
\* together.
C24_AtMostOneChainProcessRunning ==
    Cardinality({p \in 1..Len(execution_processes) :
                    /\ execution_processes[p].status = "Running"
                    /\ IsChainProcess(execution_processes[p])}) <= 1

\* the store a stream is served from: the in-memory store, else the persisted
\* log (for the normalised stream, closed by Finished and with the entries of
\* the normaliser that is attached to it again)
ServedStore ==
    IF probe.msg_store # None THEN probe.msg_store[1]
    ELSE IF probe.stream = "raw" THEN probe.log_records
    ELSE normalize_logs(probe.log_records \o <<Finished>>, probe.patches)

\* the kinds of items a stream carries, Finished apart
StreamKinds == IF probe.stream = "raw" THEN {"Stdout", "Stderr"} ELSE {"JsonPatch"}

\* C25: stream_raw_logs delivers only Stdout, Stderr and Finished items and
\* stream_normalized_logs only JsonPatch and Finished items; each stream
\* delivers every item of its kinds exactly once, in store order, and
\* Finished at most once and only as its last item, from the in-memory store
\* as from the persisted log.
C25_StreamsDeliverTheirKindsOnce ==
    (probe.fn = "stream_logs" /\ probe.done /\ probe.result # None) =>
        LET stream == probe.result[1]
        IN  /\ \A i \in 1..Len(stream) : stream[i].kind \in StreamKinds \cup {"Finished"}
            /\ FilterKinds(stream, StreamKinds) = FilterKinds(ServedStore, StreamKinds)
            /\ \A i \in 1..Len(stream) : stream[i].kind = "Finished" => i = Len(stream)

\* the persisted log of a failed coding-agent start (a Stderr line, a
\* JsonPatch line) served as normalised stream: the patch, then Finished
C25_Witness ==
    /\ probe.fn = "stream_logs" /\ probe.done
    /\ probe.stream = "normalized" /\ probe.msg_store = None
    /\ Len(probe.log_records) = 2
    /\ probe.log_records[1].kind = "Stderr" /\ probe.log_records[2].kind = "JsonPatch"
    /\ probe.patches = 0
    /\ probe.result = <<(<<probe.log_records[2], Finished>>)>>

\* C26: update_workflow_config rejects a request whose
\* max_ai_review_iterations is 0 with BadRequest and persists none of the
\* request's fields (every other request is accepted); so the stored
\* max_ai_review_iterations, 3 at first, is at least 1 after any sequence of
\* requests.
C26_ZeroIterationsRejected ==
    probe.fn = "update_workflow_config" =>
        /\ probe.stored.max_ai_review_iterations >= 1
        /\ probe.response # "none" =>
              /\ probe.response = "BadRequest"
                    <=> probe.payload.max_ai_review_iterations = <<0>>
              /\ probe.response = "BadRequest" => probe.stored = probe.before

\* a request that asks for human review and 0 iterations on a project without
\* human review: BadRequest, human review is still off
C26_Witness ==
    /\ probe.fn = "update_workflow_config"
    /\ probe.response = "BadRequest"
    /\ probe.payload.enable_human_review = <<TRUE>>
    /\ ~probe.before.enable_human_review
    /\ ~probe.stored.enable_human_review

\* C27: a max_ai_review_iterations value is valid only between 1 and 50:
\* update_workflow_config never stores a value above 50.
C27_IterationsAtMostFifty ==
    probe.fn = "update_workflow_config" =>
        probe.stored.max_ai_review_iterations <= MaxValidIterations

\* C28: should_finalize returns false for every DevServer process and for every
\* SetupScript process whose action has no next_action, whatever their status;
\* for any other process that ended Completed it returns true exactly when the
\* action has no next_action. So the exit of a parallel-mode setup script
\* (a SetupScript without next_action) never finalises the task.
C28_SetupAndDevServerNeverFinalize ==
    (probe.fn = "should_finalize" /\ probe.done) =>
        LET process == probe.process
            exempt == \/ process.run_reason = "DevServer"
                      \/ /\ process.run_reason = "SetupScript"
                         /\ next_action(process.executor_action) = None
        IN  /\ exempt => probe.result = FALSE
            /\ (~exempt /\ process.status = "Completed") =>
                  (probe.result <=> next_action(process.executor_action) = None)

\* a parallel-mode setup script that ended Completed is not finalized
C28_Witness ==
    /\ probe.fn = "should_finalize" /\ probe.done
    /\ probe.process.run_reason = "SetupScript"
    /\ probe.process.status = "Completed"
    /\ next_action(probe.process.executor_action) = None
    /\ probe.result = FALSE

\* the two kinds of action try_start_next_action tells apart
IsScript(action) == action.typ = "ScriptRequest"

IsAgentRequest(action) ==
    action.typ \in {"CodingAgentInitialRequest", "CodingAgentFollowUpRequest"}

\* C29: try_start_next_action picks the run_reason of the process it starts
\* from the types of the current and the next action: a script followed by a
\* script starts a SetupScript, a coding agent request (initial or follow-up)
\* followed by a script starts a CleanupScript, anything followed by a coding
\* agent request starts a CodingAgent; the process runs the next action. With
\* no next_action it starts nothing, writes nothing and returns Ok.
C29_NextRunReasonByActionTypes ==
    (probe.fn = "try_start_next_action" /\ probe.done) =>
        LET chain == probe.process.executor_action
        IN  IF Len(chain) = 1
            THEN probe.created = <<>> /\ probe.writes = <<>> /\ probe.ret = "Ok"
            ELSE /\ Len(probe.created) <= 1
                 /\ probe.outcome = "ok" => Len(probe.created) = 1 /\ probe.ret = "Ok"
                 /\ \A k \in 1..Len(probe.created) :
                       /\ probe.created[k].executor_action = Tail(chain)
                       /\ (IsScript(chain[1]) /\ IsScript(chain[2]))
                             => probe.created[k].run_reason = "SetupScript"
                       /\ (IsAgentRequest(chain[1]) /\ IsScript(chain[2]))
                             => probe.created[k].run_reason = "CleanupScript"
                       /\ IsAgentRequest(chain[2])
                             => probe.created[k].run_reason = "CodingAgent"

\* a coding agent followed by a script: the script starts as CleanupScript
C29_Witness ==
    /\ probe.fn = "try_start_next_action" /\ probe.done
    /\ Len(probe.process.executor_action) = 2
    /\ IsAgentRequest(probe.process.executor_action[1])
    /\ IsScript(probe.process.executor_action[2])
    /\ Len(probe.created) = 1
    /\ probe.created[1].run_reason = "CleanupScript"
    /\ probe.created[1].status = "Running"

\* the first row of the chain row q belongs to
RECURSIVE ChainRoot(_)
ChainRoot(q) == IF probe.parent[q] = 0 THEN q ELSE ChainRoot(probe.parent[q])

\* C30: within one action chain starts are strictly sequential: the process
\* of the next action exists only once the process of the current action has
\* exited and should_finalize has answered false for it, it runs the
\* next_action of the current one (so exactly one process per action, in chain
\* order), and at most one process of a chain is Running.
C30_ChainStartsAreSequential ==
    (probe.fn = "chain" /\ probe.started) =>
        LET procs == execution_processes
            rows == 1..Len(procs)
        IN  /\ \A q \in rows : probe.parent[q] # 0 =>
                  LET current == procs[probe.parent[q]]
                  IN  /\ current.status # "Running"
                      /\ ~should_finalize(current)
                      /\ procs[q].executor_action = next_action(current.executor_action)
                      /\ procs[q].executor_action # <<>>
            /\ \A q, r \in rows :
                  (q # r /\ probe.parent[q] # 0) => probe.parent[q] # probe.parent[r]
            /\ \A q, r \in rows :
                  (q # r /\ ChainRoot(q) = ChainRoot(r))
                      => ~(procs[q].status = "Running" /\ procs[r].status = "Running")

\* a chain of a setup script, the coding agent and a cleanup script: the third
\* process is Running after the first two have exited Completed
C30_Witness ==
    /\ probe.fn = "chain" /\ probe.started
    /\ \E q \in 1..Len(execution_processes) :
          /\ execution_processes[q].status = "Running"
          /\ probe.parent[q] # 0
          /\ probe.parent[probe.parent[q]] # 0
          /\ execution_processes[probe.parent[q]].status = "Completed"
          /\ execution_processes[probe.parent[probe.parent[q]]].status = "Completed"

\* scripts is exactly one ScriptRequest of the given context per repo of the
\* set, in the order of the repos
ScriptsInRepoOrder(scripts, context, repo_set) ==
    /\ Len(scripts) = Cardinality(repo_set)
    /\ \A k \in 1..Len(scripts) : scripts[k] = ScriptRequest(context, scripts[k].repo)
    /\ {scripts[k].repo : k \in 1..Len(scripts)} = repo_set
    /\ \A k \in 1..(Len(scripts) - 1) : scripts[k].repo < scripts[k + 1].repo

\* C31: build_sequential_setup_chain(repos, terminal) returns one SetupScript
\* node per repo that has a setup script, in the order of repos, followed by
\* the unchanged terminal chain (terminal itself when no repo has a setup
\* script); the coding action of start_workspace is the initial request whose
\* next_action is the cleanup scripts of the repos that have one, in repo
\* order, or None when there are none.
C31_ChainBuildersKeepRepoOrder ==
    (probe.fn = "build_sequential_setup_chain" /\ probe.done) =>
        LET repos == probe.project_repos
            S == {i \in 1..Len(repos) : repos[i].setup_script}
            C == {i \in 1..Len(repos) : repos[i].cleanup_script}
            n == Cardinality(S)
        IN  /\ Len(probe.chain) = n + Len(probe.terminal)
            /\ ScriptsInRepoOrder(SubSeq(probe.chain, 1, n), "SetupScript", S)
            /\ SubSeq(probe.chain, n + 1, Len(probe.chain)) = probe.terminal
            /\ S = {} => probe.chain = probe.terminal
            /\ probe.coding_action[1] = CodingAgentInitialRequest
            /\ ScriptsInRepoOrder(next_action(probe.coding_action), "CleanupScript", C)
            /\ C = {} => next_action(probe.coding_action) = None

\* two repos with setup and cleanup scripts: two setup nodes in front of the
\* terminal, two cleanup scripts behind the initial request
C31_Witness ==
    /\ probe.fn = "build_sequential_setup_chain" /\ probe.done
    /\ ~probe.filtered
    /\ Len(probe.project_repos) = 2
    /\ \A i \in 1..2 : probe.project_repos[i].setup_script /\ probe.project_repos[i].cleanup_script
    /\ Len(probe.chain) = 2 + Len(probe.terminal)
    /\ probe.chain[1].repo = 1 /\ probe.chain[2].repo = 2
    /\ Len(probe.coding_action) = 3

\* C32: try_stop(workspace, include_dev_server) requests a stop with status
\* Killed once for exactly the Running processes of the workspace's sessions,
\* DevServer processes left out when include_dev_server is false; a row that
\* is not one of these is untouched (not Running, another workspace, a skipped
\* DevServer), and a stop that fails does not keep the others from being
\* requested: every requested row whose stop succeeds is Killed.
C32_TryStopKillsRunningOfWorkspace ==
    (probe.fn = "try_stop" /\ probe.done) =>
        LET rows == 1..Len(probe.before)
            targets ==
                {i \in rows :
                    /\ session_workspace[probe.before[i].session] = probe.workspace
                    /\ probe.before[i].status = "Running"
                    /\ probe.include_dev_server \/ probe.before[i].run_reason # "DevServer"}
        IN  /\ {probe.requested[k] : k \in 1..Len(probe.requested)} = targets
            /\ Len(probe.requested) = Cardinality(targets)
            /\ Len(probe.processes) = Len(probe.before)
            /\ \A i \in rows :
                  probe.processes[i] =
                      IF i \in targets /\ probe.stop_ok[i]
                      THEN [probe.before[i] EXCEPT !.status = "Killed"]
                      ELSE probe.before[i]

\* the stop of the first Running process fails and the second one is killed
\* all the same
C32_Witness ==
    /\ probe.fn = "try_stop" /\ probe.done
    /\ Len(probe.before) = 2
    /\ ~probe.stop_ok[1] /\ probe.stop_ok[2]
    /\ probe.requested = <<1, 2>>
    /\ probe.processes[1].status = "Running"
    /\ probe.processes[2].status = "Killed"

\* the items of the store in front of its first Finished
RECURSIVE BeforeFinished(_)
BeforeFinished(store) ==
    IF store = <<>> \/ Head(store).kind = "Finished" THEN <<>>
    ELSE <<Head(store)>> \o BeforeFinished(Tail(store))

\* C33: at every moment the log table of an execution holds exactly the Stdout
\* and Stderr items delivered so far in front of the first Finished, one line
\* per item in the order delivered, and never a JsonPatch; the coding-agent
\* turn has been given each SessionId delivered so far; the pump stops at the
\* first Finished and takes nothing after it.
C33_PumpPersistsRawItemsInOrder ==
    probe.fn = "spawn_stream_raw_logs_to_db" =>
        LET seen == SubSeq(probe.store, 1, probe.delivered)
            live == BeforeFinished(seen)
        IN  /\ probe.pump.log_lines =
                  [k \in 1..Len(FilterKinds(live, {"Stdout", "Stderr"})) |->
                      [json |-> FilterKinds(live, {"Stdout", "Stderr"})[k], newline |-> TRUE]]
            /\ \A k \in 1..Len(probe.pump.log_lines) :
                  probe.pump.log_lines[k].json.kind # "JsonPatch"
            /\ probe.pump.agent_session_ids = FilterKinds(live, {"SessionId"})
            /\ probe.pump.stopped <=> Len(live) < Len(seen)
            /\ probe.pump.stopped => Len(seen) = Len(live) + 1

\* the pump has persisted a Stderr line and stopped at a Finished that is
\* followed by a Stdout item
C33_Witness ==
    /\ probe.fn = "spawn_stream_raw_logs_to_db"
    /\ probe.pump.stopped
    /\ Len(probe.store) = 3 /\ probe.delivered = 2
    /\ probe.store[1].kind = "Stderr" /\ probe.store[3].kind = "Stdout"
    /\ Len(probe.pump.log_lines) = 1

\* the command carries the Claude stream-json prelude
EmitsClaudePrelude(args) ==
    Len(args) >= Len(ClaudePrelude) /\ SubSeq(args, 1, Len(ClaudePrelude)) = ClaudePrelude

\* C34: spawn and spawn_follow_up of a custom agent use the control-protocol
\* peer and hand back an interrupt sender exactly when the agent is
\* Claude-like, that is exactly when build_command_builder emits the Claude
\* stream-json prelude (also with no base agent); for every other base agent
\* they write the prompt to stdin, close it and hand back no interrupt sender.
C34_ControlProtocolIffClaudeLike ==
    (probe.fn = "spawn" /\ probe.spawned) =>
        IF EmitsClaudePrelude(probe.child.args)
        THEN /\ probe.child.peer # None
             /\ probe.child.interrupt_sender # None
        ELSE /\ probe.child.peer = None
             /\ probe.child.interrupt_sender = None
             /\ probe.child.stdin = combine_prompt(probe.agent.append_prompt, "prompt")
             /\ probe.child.stdin_closed

\* C35: the control-protocol task requests initialize, set_permission_mode,
\* send_user_message in that order: send_user_message is never requested
\* before initialize has succeeded; when initialize fails the task logs a raw
\* error and requests nothing more; when set_permission_mode fails the prompt
\* is sent all the same and nothing is logged raw; a failed send_user_message
\* is logged as a raw error.
C35_ProtocolTaskOrder ==
    (probe.fn = "spawn" /\ probe.spawned /\ probe.child.peer # None) =>
        LET calls == probe.task.calls
            Order == <<"initialize", "set_permission_mode", "send_user_message">>
        IN  /\ Len(calls) <= 3
            /\ \A k \in 1..Len(calls) : calls[k].call = Order[k]
            /\ Len(calls) >= 2 => calls[1].ok
            /\ (Len(calls) >= 1 /\ ~calls[1].ok) =>
                  /\ probe.task.pc = "done" /\ Len(calls) = 1
                  /\ probe.task.raw_logs = <<"Error: Failed to initialize">>
            /\ probe.task.pc = "done" =>
                  \/ (Len(calls) = 1 /\ ~calls[1].ok)
                  \/ /\ Len(calls) = 3
                     /\ probe.task.raw_logs =
                           IF calls[3].ok THEN <<>> ELSE <<"Error: Failed to send prompt">>
            /\ Len(calls) = 2 => probe.task.pc = "send_user_message"

\* set_permission_mode has failed and the prompt has been sent
C35_Witness ==
    /\ probe.fn = "spawn" /\ probe.spawned /\ probe.follow_up
    /\ probe.task.pc = "done"
    /\ Len(probe.task.calls) = 3
    /\ probe.task.calls[1].ok /\ ~probe.task.calls[2].ok /\ probe.task.calls[3].ok
    /\ probe.task.raw_logs = <<>>

\* C36: every process that runs a ScriptRequest whose context is CleanupScript
\* has run_reason CleanupScript and every process that runs one whose context
\* is SetupScript has run_reason SetupScript, whatever the number of setup and
\* cleanup scripts of the chain.
C36_RunReasonMatchesScriptContext ==
    (probe.fn = "start_workspace" /\ probe.started) =>
        \A p \in 1..Len(execution_processes) :
            LET action == execution_processes[p].executor_action[1]
            IN  (IsScript(action) /\ action.context \in {"SetupScript", "CleanupScript"})
                    => execution_processes[p].run_reason = action.context

\* C37: starting an execution with run_reason DevServer never changes the
\* task's status, whether start_execution_inner succeeds or fails.
C37_DevServerStartKeepsTaskStatus ==
    \A outcome \in {"ok", "executable_not_found", "spawn_error"} :
        LET s == start_execution(StartState, <<ScriptRequest("DevServer", 1)>>,
                                 "DevServer", outcome)
        IN  s.task = task_status /\ s.writes = <<>>

\* C38: when start_execution returns an error before it has created the
\* ExecutionProcess row (no repositories, no container_ref), the task's status
\* is the same as before the call.
C38_EarlyStartErrorKeepsTaskStatus ==
    \A d \in DirectStarts : \A outcome \in {"no_repositories", "no_container_ref"} :
        LET s == start_execution(StartState, d[1], d[2], outcome)
        IN  (s.ret # "Ok" /\ s.procs = execution_processes) => s.task = task_status

\* C39: in a sequential chain, once the process of an action has ended Failed
\* or Killed no later action of the chain is ever started: every process that
\* an exit has started follows a process that ended Completed, and a process
\* that ended Failed or Killed never has a successor.
C39_NothingStartsAfterFailedOrKilled ==
    (probe.fn = "chain" /\ probe.started) =>
        \A q \in 1..Len(execution_processes) :
            /\ probe.parent[q] # 0 =>
                  execution_processes[probe.parent[q]].status = "Completed"
            /\ execution_processes[q].status \in {"Failed", "Killed"} =>
                  ~\E r \in 1..Len(execution_processes) : probe.parent[r] = q

\* the coding agent of a chain was started after its setup script and killed
\* with a cleanup script still to run; nothing runs any more and the cleanup
\* script was never started
C39_Witness ==
    /\ probe.fn = "chain" /\ probe.started
    /\ \A r \in 1..Len(execution_processes) : execution_processes[r].status # "Running"
    /\ \E q \in 1..Len(execution_processes) :
          /\ probe.parent[q] # 0
          /\ execution_processes[q].status = "Killed"
          /\ execution_processes[q].run_reason = "CodingAgent"
          /\ next_action(execution_processes[q].executor_action) # None
          /\ ~\E r \in 1..Len(execution_processes) : probe.parent[r] = q

\* C40: handle_ai_review_result(Fail) sends a task back from AI review to
\* InProgress at most max_ai_review_iterations times: the number of Testing,
\* InReview, Fail, InProgress cycles of one task never exceeds the project's
\* max_ai_review_iterations.
C40_FailCyclesAtMostMaxIterations ==
    probe.fn = "review_loop" => probe.fails <= probe.max_ai_review_iterations

====
